---- MODULE Spec2Model ----
(***************************************************************************)
(* Model of the plaso attribute container store interface                  *)
(* (plaso/storage/interface.py, class BaseStore): the write operations     *)
(* with their writable-state and storage-type checks, and the session      *)
(* assembler GetSessions.                                                  *)
(*                                                                         *)
(* BaseStore is an abstract class.  The operations it leaves abstract      *)
(* (_RaiseIfNotWritable, _WriteNewAttributeContainer, Open, Close,         *)
(* GetAttributeContainers, HasAttributeContainers) and the Session         *)
(* container of plaso.containers.sessions are modelled from the            *)
(* specification of the store: an append-only backend that keeps the       *)
(* containers of each type in write order.                                 *)
(***************************************************************************)
EXTENDS Integers, Sequences, FiniteSets, TLC

\* ------------------------------------------------------------------ bounds

\* Largest number of containers of all types together in a store (Spec).
MaxContainers == 2

\* Largest number of session_start, session_configuration and
\* session_completion containers together in a store (SpecSessions).
MaxSessionRecords == 6

\* Largest value of _last_session a backend hands to GetSessions (SpecSessions).
MaxLastSession == 3

\* Longest serialized data handed to _DeserializeAttributeContainer, in bytes
\* (SpecSerializer).
MaxDataLen == 3

\* Longest text attribute of a container handed to
\* _SerializeAttributeContainer, in characters (SpecSerializer).
MaxTextLen == 1

\* Number of storage readers a caller uses in with statements (SpecReader).
MaxReaders == 3

\* Largest number of events, and of event data, written (SpecEvents).
MaxEvents == 3

\* Largest timestamp of an event and of a time range (SpecEvents).
MaxTimestamp == 3

\* Largest number of session_start, session_configuration and
\* session_completion containers together (SpecGenerators).
MaxEnumerated == 3

\* Largest number of event data _ParseRecord produces (SpecSanta).
MaxRecords == 2

\* Largest number of calls of FormatEventValues (SpecFormatter).
MaxFormatCalls == 2

\* ------------------------------------------------------- container types

CONTAINER_TYPE_ANALYSIS_REPORT == "analysis_report"
CONTAINER_TYPE_ANALYSIS_WARNING == "analysis_warning"
CONTAINER_TYPE_EVENT == "event"
CONTAINER_TYPE_EVENT_DATA == "event_data"
CONTAINER_TYPE_EVENT_DATA_STREAM == "event_data_stream"
CONTAINER_TYPE_EVENT_SOURCE == "event_source"
CONTAINER_TYPE_EVENT_TAG == "event_tag"
CONTAINER_TYPE_EXTRACTION_WARNING == "extraction_warning"
CONTAINER_TYPE_PREPROCESSING_WARNING == "preprocessing_warning"
CONTAINER_TYPE_RECOVERY_WARNING == "recovery_warning"
CONTAINER_TYPE_SESSION_COMPLETION == "session_completion"
CONTAINER_TYPE_SESSION_CONFIGURATION == "session_configuration"
CONTAINER_TYPE_SESSION_START == "session_start"
CONTAINER_TYPE_SYSTEM_CONFIGURATION == "system_configuration"
CONTAINER_TYPE_TASK_COMPLETION == "task_completion"
CONTAINER_TYPE_TASK_START == "task_start"

CONTAINER_TYPES ==
  { CONTAINER_TYPE_ANALYSIS_REPORT,
    CONTAINER_TYPE_ANALYSIS_WARNING,
    CONTAINER_TYPE_EXTRACTION_WARNING,
    CONTAINER_TYPE_EVENT,
    CONTAINER_TYPE_EVENT_DATA,
    CONTAINER_TYPE_EVENT_DATA_STREAM,
    CONTAINER_TYPE_EVENT_SOURCE,
    CONTAINER_TYPE_EVENT_TAG,
    CONTAINER_TYPE_PREPROCESSING_WARNING,
    CONTAINER_TYPE_RECOVERY_WARNING,
    CONTAINER_TYPE_SESSION_COMPLETION,
    CONTAINER_TYPE_SESSION_CONFIGURATION,
    CONTAINER_TYPE_SESSION_START,
    CONTAINER_TYPE_SYSTEM_CONFIGURATION,
    CONTAINER_TYPE_TASK_COMPLETION,
    CONTAINER_TYPE_TASK_START }

\* Container types that only should be used in a session store.
SESSION_STORE_ONLY_CONTAINER_TYPES ==
  { CONTAINER_TYPE_SESSION_COMPLETION,
    CONTAINER_TYPE_SESSION_START,
    CONTAINER_TYPE_SYSTEM_CONFIGURATION }

\* Container types that only should be used in a task store.
TASK_STORE_ONLY_CONTAINER_TYPES ==
  { CONTAINER_TYPE_TASK_COMPLETION,
    CONTAINER_TYPE_TASK_START }

STORAGE_TYPE_SESSION == "session"
STORAGE_TYPE_TASK == "task"

STORAGE_TYPES == { STORAGE_TYPE_SESSION, STORAGE_TYPE_TASK }

\* The container types that carry a session identifier.
SessionContainerTypes ==
  { CONTAINER_TYPE_SESSION_START,
    CONTAINER_TYPE_SESSION_CONFIGURATION,
    CONTAINER_TYPE_SESSION_COMPLETION }

\* The session identifiers the containers given to the store carry.
SessionIdentifiers == { 1, 2 }

\* An attribute container as handed to the store: its CONTAINER_TYPE, the
\* session identifier it carries (0: the type has none) and its store
\* identifier (0: not yet written).
Container(container_type, session_identifier) ==
  [ container_type |-> container_type,
    session_identifier |-> session_identifier,
    identifier |-> 0 ]

\* The containers of one type a caller can hand to the store.
ContainersOfType(container_type) ==
  IF container_type \in SessionContainerTypes
    THEN { Container(container_type, s) : s \in SessionIdentifiers }
    ELSE { Container(container_type, 0) }

\* ------------------------------------------------------------------- state

VARIABLES
  storage_type,      \* BaseStore.storage_type
  is_open,           \* whether the backend has the store open
  read_only,         \* whether the backend opened the store read-only
  last_session,      \* BaseStore._last_session
  containers,        \* the persisted containers: container type -> sequence
  result,            \* the outcome of the last store operation called
  pc,                \* GetSessions generator: idle, running, done or error
  session_index,     \* GetSessions: session_index of the next iteration
  session_start_generator,          \* GetSessions: the three generators
  session_completion_generator,
  session_configuration_generator,
  session_completion,               \* GetSessions: the local of that name
  sessions,          \* GetSessions: the sessions yielded so far
  sessions_error,    \* GetSessions: the exception that ended the generator
  stored_data,       \* the serialized data a backend has read from its file
  serializers_profiler,  \* BaseStore._serializers_profiler: whether one is set
  timings,           \* the profiler: timings started and not stopped, by type
  serializer_pc,     \* the serializer wrapper that is running, or idle
  attribute_container,   \* the container given to or serialized by a wrapper
  timed_container_type,  \* the container_type the wrapper hands the profiler
  serialized_data,   \* _DeserializeAttributeContainer: its serialized_data
  serializer_result, \* what the last serializer wrapper returned or raised
  round_trip,        \* whether serialized_data is what the wrapper returned
  reader_state,      \* StorageReader: new, entered by a with statement, closed
  close_calls,       \* StorageReader: the calls of Close, by reader
  with_stack,        \* the readers of the with statements entered
  exception_type,    \* the exception in flight in the caller, or none
  flushed,           \* the events the backend has flushed to its file
  time_range,        \* GetSortedEvents: its time_range
  sorted_events,     \* GetSortedEvents: the events it yields
  enumerations,      \* the generators callers got from GetAttributeContainers
  knowledge_base,    \* the artifacts ReadSystemConfiguration passed on
  kept_sessions,     \* what a caller of GetSessions kept of an enumeration
  santa_key,         \* SantaTextPlugin._ParseRecord: its key
  santa_structure,   \* SantaTextPlugin._ParseRecord: its structure
  produced_event_data,   \* what parser_mediator.ProduceEventData was given
  santa_result,      \* what the last _ParseRecord returned or raised
  event_values,      \* FormatEventValues: its event_values dictionary
  format_calls       \* the calls of FormatEventValues on event_values

store_vars == << storage_type, is_open, read_only, last_session, containers >>

generator_vars ==
  << pc, session_index, session_start_generator, session_completion_generator,
     session_configuration_generator, session_completion, sessions,
     sessions_error >>

serializer_vars ==
  << stored_data, serializers_profiler, timings, serializer_pc,
     attribute_container,
     timed_container_type, serialized_data, serializer_result, round_trip >>

events_vars == << flushed, time_range, sorted_events >>

read_vars == << enumerations, knowledge_base >>

parser_vars ==
  << santa_key, santa_structure, produced_event_data, santa_result >>

formatter_vars == << event_values, format_calls >>

\* The state the store operations and GetSessions leave alone.
other_vars ==
  << serializer_vars, reader_state, close_calls, with_stack, exception_type,
     events_vars, read_vars, kept_sessions,
               parser_vars, formatter_vars >>

vars == << storage_type, is_open, read_only, last_session, containers, result,
           pc, session_index, session_start_generator,
           session_completion_generator, session_configuration_generator,
           session_completion, sessions, sessions_error, stored_data,
           serializers_profiler, timings, serializer_pc, attribute_container,
           timed_container_type, serialized_data, serializer_result,
           round_trip, reader_state, close_calls, with_stack, exception_type,
           flushed, time_range, sorted_events, enumerations,
           knowledge_base, kept_sessions, santa_key, santa_structure,
           produced_event_data, santa_result, event_values, format_calls >>

\* ----------------------------------------------------------------- results

NoError == [ error |-> "none", message |-> "" ]

IOError(message) == [ error |-> "IOError", message |-> message ]

\* The error of _RaiseIfNotWritable.
NotWritableError == IOError("Unable to write to store.")

\* The error of a read of a closed store.
NotReadableError == IOError("Unable to read from closed store.")

Result(op, container_type, outcome, written) ==
  [ op |-> op,
    container_type |-> container_type,
    error |-> outcome.error,
    message |-> outcome.message,
    written |-> written ]

NoResult == Result("none", "none", NoError, FALSE)

\* -------------------------------------------------------- abstract backend

\* _RaiseIfNotWritable raises: the store is closed or read-only.
RaiseIfNotWritable == ~is_open \/ read_only

\* _RaiseIfNotReadable raises: the store is closed.
RaiseIfNotReadable == ~is_open

\* GetNumberOfAttributeContainers.
GetNumberOfAttributeContainers(container_type) == Len(containers[container_type])

\* HasAttributeContainers.
HasAttributeContainers(container_type) ==
  GetNumberOfAttributeContainers(container_type) > 0

\* The number of containers of all types in the store.
RECURSIVE SumOver(_, _)
SumOver(f, S) ==
  IF S = {} THEN 0
  ELSE LET x == CHOOSE y \in S : TRUE
       IN f[x] + SumOver(f, S \ {x})

TotalContainers ==
  SumOver([t \in CONTAINER_TYPES |-> Len(containers[t])], CONTAINER_TYPES)

\* _WriteNewAttributeContainer: assigns the next identifier of the container
\* type and appends the container to the containers of its type.
WriteNewAttributeContainer(container) ==
  LET container_type == container.container_type
      identifier == Len(containers[container_type]) + 1
  IN containers' =
       [containers EXCEPT ![container_type] =
          Append(containers[container_type],
                 [container EXCEPT !.identifier = identifier])]

\* Open: the backend opens the store, for writing or read-only.
Open(as_read_only) ==
  /\ ~is_open
  /\ is_open' = TRUE
  /\ read_only' = as_read_only
  /\ result' = Result("Open", "none", NoError, FALSE)
  /\ UNCHANGED << storage_type, last_session, containers >>
  /\ UNCHANGED << generator_vars, other_vars >>

\* Close: the backend closes the store.
Close ==
  /\ is_open
  /\ is_open' = FALSE
  /\ read_only' = FALSE
  /\ result' = Result("Close", "none", NoError, FALSE)
  /\ UNCHANGED << storage_type, last_session, containers >>
  /\ UNCHANGED << generator_vars, other_vars >>

\* ------------------------------------------------------------ write calls

\* A call that raised: nothing of the store changes.
Raise(op, container_type, exception) ==
  /\ result' = Result(op, container_type, exception, FALSE)
  /\ UNCHANGED store_vars
  /\ UNCHANGED << generator_vars, other_vars >>

\* Write that overwrites the last container of the type, when there is one,
\* instead of writing a new one.
Write_Existing(op, container) ==
  /\ LET container_type == container.container_type
         count == Len(containers[container_type])
     IN IF count = 0
          THEN WriteNewAttributeContainer(container)
          ELSE containers' =
                 [containers EXCEPT ![container_type][count] =
                    [container EXCEPT !.identifier = count]]
  /\ result' = Result(op, container.container_type, NoError, TRUE)
  /\ UNCHANGED << storage_type, is_open, read_only, last_session >>
  /\ UNCHANGED << generator_vars, other_vars >>

\* A call that reached _WriteNewAttributeContainer and returned.
Write(op, container) ==
  /\ WriteNewAttributeContainer(container)
  /\ result' = Result(op, container.container_type, NoError, TRUE)
  /\ UNCHANGED << storage_type, is_open, read_only, last_session >>
  /\ UNCHANGED << generator_vars, other_vars >>

\* A call that returned without writing.
Return(op, container_type) ==
  /\ result' = Result(op, container_type, NoError, FALSE)
  /\ UNCHANGED store_vars
  /\ UNCHANGED << generator_vars, other_vars >>

\* AddAttributeContainer without its call of _RaiseIfNotWritable.
AddAttributeContainer_NoWritableCheck(container) ==
  Write("AddAttributeContainer", container)

AddAttributeContainer(container) ==
  IF RaiseIfNotWritable
    THEN Raise("AddAttributeContainer", container.container_type,
               NotWritableError)
    ELSE Write("AddAttributeContainer", container)

WriteSessionCompletion(container) ==
  IF RaiseIfNotWritable
    THEN Raise("WriteSessionCompletion", container.container_type,
               NotWritableError)
  ELSE IF storage_type # STORAGE_TYPE_SESSION
    THEN Raise("WriteSessionCompletion", container.container_type,
               IOError("Session completion not supported by storage type."))
  ELSE Write("WriteSessionCompletion", container)

\* WriteSessionConfiguration that writes whatever the store holds.
WriteSessionConfiguration_Always(container) ==
  IF RaiseIfNotWritable
    THEN Raise("WriteSessionConfiguration", container.container_type,
               NotWritableError)
    ELSE Write("WriteSessionConfiguration", container)

WriteSessionConfiguration(container) ==
  IF RaiseIfNotWritable
    THEN Raise("WriteSessionConfiguration", container.container_type,
               NotWritableError)
  ELSE IF ~HasAttributeContainers(CONTAINER_TYPE_SYSTEM_CONFIGURATION)
    THEN Write("WriteSessionConfiguration", container)
  ELSE Return("WriteSessionConfiguration", container.container_type)

\* WriteSessionStart without its storage_type check.
WriteSessionStart_NoStorageTypeCheck(container) ==
  IF RaiseIfNotWritable
    THEN Raise("WriteSessionStart", container.container_type,
               NotWritableError)
    ELSE Write("WriteSessionStart", container)

WriteSessionStart(container) ==
  IF RaiseIfNotWritable
    THEN Raise("WriteSessionStart", container.container_type,
               NotWritableError)
  ELSE IF storage_type # STORAGE_TYPE_SESSION
    THEN Raise("WriteSessionStart", container.container_type,
               IOError("Session start not supported by storage type."))
  ELSE Write("WriteSessionStart", container)

\* WriteTaskCompletion that tests the storage type before the writable state.
WriteTaskCompletion_StorageTypeFirst(container) ==
  IF storage_type # STORAGE_TYPE_TASK
    THEN Raise("WriteTaskCompletion", container.container_type,
               IOError("Task start not supported by storage type."))
  ELSE IF RaiseIfNotWritable
    THEN Raise("WriteTaskCompletion", container.container_type,
               NotWritableError)
  ELSE Write("WriteTaskCompletion", container)

WriteTaskCompletion(container) ==
  IF RaiseIfNotWritable
    THEN Raise("WriteTaskCompletion", container.container_type,
               NotWritableError)
  ELSE IF storage_type # STORAGE_TYPE_TASK
    THEN Raise("WriteTaskCompletion", container.container_type,
               IOError("Task start not supported by storage type."))
  ELSE Write("WriteTaskCompletion", container)

\* WriteTaskStart that requires a session store instead of a task store.
WriteTaskStart_WrongStorageType(container) ==
  IF RaiseIfNotWritable
    THEN Raise("WriteTaskStart", container.container_type,
               NotWritableError)
  ELSE IF storage_type # STORAGE_TYPE_SESSION
    THEN Raise("WriteTaskStart", container.container_type,
               IOError("Task completion not supported by storage type."))
  ELSE Write("WriteTaskStart", container)

WriteTaskStart(container) ==
  IF RaiseIfNotWritable
    THEN Raise("WriteTaskStart", container.container_type,
               NotWritableError)
  ELSE IF storage_type # STORAGE_TYPE_TASK
    THEN Raise("WriteTaskStart", container.container_type,
               IOError("Task completion not supported by storage type."))
  ELSE Write("WriteTaskStart", container)

\* ------------------------------------------------------------- GetSessions

\* sessions.Session: the identifier of the session and, for each of the three
\* records merged into it, the store identifier of that record (0: none).
Session ==
  [ identifier |-> 0,
    session_start |-> 0,
    session_configuration |-> 0,
    session_completion |-> 0 ]

\* Session.CopyAttributesFromSessionStart.
CopyAttributesFromSessionStart(session, start) ==
  [session EXCEPT !.identifier = start.session_identifier,
                  !.session_start = start.identifier]

\* Session.CopyAttributesFromSessionConfiguration and
\* Session.CopyAttributesFromSessionCompletion raise ValueError: the session
\* identifier of the record is not that of the session.
SessionIdentifierMismatch(session, container) ==
  session.identifier # container.session_identifier

\* Session.CopyAttributesFromSessionConfiguration.
CopyAttributesFromSessionConfiguration(session, configuration) ==
  [session EXCEPT !.session_configuration = configuration.identifier]

\* Session.CopyAttributesFromSessionCompletion.
CopyAttributesFromSessionCompletion(session, completion) ==
  [session EXCEPT !.session_completion = completion.identifier]

\* A generator of GetAttributeContainers: the number of containers it has
\* returned.  exists is FALSE for the None that stands for no generator.
Generator == [ exists |-> TRUE, position |-> 0 ]

NoGenerator == [ exists |-> FALSE, position |-> 0 ]

\* next(generator) raises StopIteration.
StopIteration(generator, container_type) ==
  generator.position >= Len(containers[container_type])

\* The container next(generator) returns.
NextContainer(generator, container_type) ==
  containers[container_type][generator.position + 1]

\* The generator after next(generator) returned a container.
Advance(generator) == [generator EXCEPT !.position = generator.position + 1]

\* A local variable that no assignment has bound yet.
Unbound == [ bound |-> FALSE, container |-> Container("none", 0) ]

Bound(container) == [ bound |-> TRUE, container |-> container ]

NoSessionsError == [ error |-> "none", message |-> "", session_index |-> 0 ]

SessionsError(error, message, index) ==
  [ error |-> error, message |-> message, session_index |-> index ]

GeneratorInit ==
  /\ pc = "idle"
  /\ session_index = 0
  /\ session_start_generator = NoGenerator
  /\ session_completion_generator = NoGenerator
  /\ session_configuration_generator = NoGenerator
  /\ session_completion = Unbound
  /\ sessions = << >>
  /\ sessions_error = NoSessionsError

\* SessionConfigurationGenerator of a GetSessions that expects session
\* configurations in every store.
SessionConfigurationGenerator_Always == Generator

\* Lines 281-285: the generator of the session configurations, None when
\* the store holds no session configuration.
SessionConfigurationGenerator ==
  IF HasAttributeContainers(CONTAINER_TYPE_SESSION_CONFIGURATION)
    THEN Generator
    ELSE NoGenerator

\* GetSessions up to the loop: the generators are opened.
GetSessionsBegin ==
  /\ pc = "idle"
  /\ result' = Result("GetSessions", "none", NoError, FALSE)
  /\ UNCHANGED << store_vars, other_vars >>
  /\ IF RaiseIfNotReadable
       THEN /\ pc' = "error"
            /\ sessions_error' =
                 SessionsError("IOError", NotReadableError.message, 0)
            /\ UNCHANGED << session_index, session_start_generator,
                            session_completion_generator,
                            session_configuration_generator,
                            session_completion, sessions >>
       ELSE /\ pc' = "running"
            /\ session_start_generator' = Generator
            /\ session_completion_generator' = Generator
            /\ session_configuration_generator' =
                 SessionConfigurationGenerator
            /\ session_index' = 1
            /\ UNCHANGED << session_completion, sessions, sessions_error >>

\* The session_completion local after the try of lines 293-296: the container
\* next() returned, or the value it had before when StopIteration was passed.
PullSessionCompletion ==
  IF StopIteration(session_completion_generator,
                   CONTAINER_TYPE_SESSION_COMPLETION)
    THEN session_completion
    ELSE Bound(NextContainer(session_completion_generator,
                             CONTAINER_TYPE_SESSION_COMPLETION))

\* The generator ends with an exception.
GetSessionsRaise(error, message) ==
  /\ pc' = "error"
  /\ sessions_error' = SessionsError(error, message, session_index)
  /\ UNCHANGED << session_index, sessions >>

\* The generator yields a session.
GetSessionsYield(session) ==
  /\ pc' = "running"
  /\ sessions' = Append(sessions, session)
  /\ session_index' = session_index + 1
  /\ UNCHANGED sessions_error

\* GetSessionsMerge that yields the session without copying the attributes
\* of the session completion.
GetSessionsMerge_NoCompletion(session_start, configuration, completion) ==
  LET started == CopyAttributesFromSessionStart(Session, session_start)
  IN IF /\ configuration.bound
        /\ SessionIdentifierMismatch(started, configuration.container)
       THEN GetSessionsRaise("IOError",
              "Session identifier mismatch for session configuration")
     ELSE IF configuration.bound
       THEN GetSessionsYield(CopyAttributesFromSessionConfiguration(
                               started, configuration.container))
     ELSE GetSessionsYield(started)

\* GetSessionsMerge that passes the ValueError of a mismatched session
\* completion instead of raising IOError.
GetSessionsMerge_MismatchPassed(session_start, configuration, completion) ==
  LET started == CopyAttributesFromSessionStart(Session, session_start)
      configured ==
        IF configuration.bound
          THEN CopyAttributesFromSessionConfiguration(
                 started, configuration.container)
          ELSE started
  IN IF /\ configuration.bound
        /\ SessionIdentifierMismatch(started, configuration.container)
       THEN GetSessionsRaise("IOError",
              "Session identifier mismatch for session configuration")
     ELSE IF ~completion.bound
       THEN GetSessionsRaise("UnboundLocalError",
              "local variable 'session_completion' referenced before assignment")
     ELSE GetSessionsYield(
            CopyAttributesFromSessionCompletion(
              configured, completion.container))

\* Lines 306-325 of one iteration: the session is built and yielded.
GetSessionsMerge(session_start, configuration, completion) ==
  LET started == CopyAttributesFromSessionStart(Session, session_start)
      configured ==
        IF configuration.bound
          THEN CopyAttributesFromSessionConfiguration(
                 started, configuration.container)
          ELSE started
  IN IF /\ configuration.bound
        /\ SessionIdentifierMismatch(started, configuration.container)
       THEN GetSessionsRaise("IOError",
              "Session identifier mismatch for session configuration")
     ELSE IF ~completion.bound
       THEN GetSessionsRaise("UnboundLocalError",
              "local variable 'session_completion' referenced before assignment")
     ELSE IF SessionIdentifierMismatch(configured, completion.container)
       THEN GetSessionsRaise("IOError",
              "Session identifier mismatch for session completion")
     ELSE GetSessionsYield(
            CopyAttributesFromSessionCompletion(
              configured, completion.container))

\* GetSessionsMissingStart that ends the enumeration as if the loop were over.
GetSessionsMissingStart_Stops ==
  /\ pc' = "done"
  /\ UNCHANGED << session_index, sessions, sessions_error >>

\* Lines 290-291: next(session_start_generator) raised StopIteration.
GetSessionsMissingStart ==
  GetSessionsRaise("IOError", "Missing session start")

\* GetSessionsMissingConfiguration that passes the StopIteration, the way
\* the missing session completion is passed, and yields the session.
GetSessionsMissingConfiguration_Passed ==
  GetSessionsMerge(
    NextContainer(session_start_generator, CONTAINER_TYPE_SESSION_START),
    Unbound, PullSessionCompletion)

\* Lines 302-304: next(session_configuration_generator) raised StopIteration.
GetSessionsMissingConfiguration ==
  GetSessionsRaise("IOError", "Missing session configuration")

\* RangeExhausted of a loop that runs one session index too far.
RangeExhausted_OneMore == session_index > last_session + 1

\* Line 287: range(1, self._last_session + 1) has no further session_index.
RangeExhausted == session_index > last_session

\* One iteration of the loop of GetSessions, or its end.
GetSessionsNext ==
  /\ pc = "running"
  /\ UNCHANGED << store_vars, result, other_vars >>
  /\ IF RangeExhausted
       THEN /\ pc' = "done"
            /\ UNCHANGED << session_index, session_start_generator,
                            session_completion_generator,
                            session_configuration_generator,
                            session_completion, sessions, sessions_error >>
     ELSE IF StopIteration(session_start_generator,
                           CONTAINER_TYPE_SESSION_START)
       THEN /\ GetSessionsMissingStart
            /\ UNCHANGED << session_start_generator,
                            session_completion_generator,
                            session_configuration_generator,
                            session_completion >>
     ELSE
       /\ session_start_generator' = Advance(session_start_generator)
       /\ session_completion' = PullSessionCompletion
       /\ session_completion_generator' =
            IF StopIteration(session_completion_generator,
                             CONTAINER_TYPE_SESSION_COMPLETION)
              THEN session_completion_generator
              ELSE Advance(session_completion_generator)
       /\ IF ~session_configuration_generator.exists
            THEN /\ UNCHANGED session_configuration_generator
                 /\ GetSessionsMerge(
                      NextContainer(session_start_generator,
                                    CONTAINER_TYPE_SESSION_START),
                      Unbound, PullSessionCompletion)
          ELSE IF StopIteration(session_configuration_generator,
                                CONTAINER_TYPE_SESSION_CONFIGURATION)
            THEN /\ UNCHANGED session_configuration_generator
                 /\ GetSessionsMissingConfiguration
          ELSE
            /\ session_configuration_generator' =
                 Advance(session_configuration_generator)
            /\ GetSessionsMerge(
                 NextContainer(session_start_generator,
                               CONTAINER_TYPE_SESSION_START),
                 Bound(NextContainer(session_configuration_generator,
                                     CONTAINER_TYPE_SESSION_CONFIGURATION)),
                 PullSessionCompletion)

\* The caller drops the generator, finished or not.
\* GetSessionsClose of a GetSessions that sets _last_session to the number
\* of sessions it has yielded.
GetSessionsClose_SetsLastSession ==
  /\ pc # "idle"
  /\ pc' = "idle"
  /\ session_index' = 0
  /\ session_start_generator' = NoGenerator
  /\ session_completion_generator' = NoGenerator
  /\ session_configuration_generator' = NoGenerator
  /\ session_completion' = Unbound
  /\ sessions' = << >>
  /\ sessions_error' = NoSessionsError
  /\ last_session' = Len(sessions)
  /\ UNCHANGED << storage_type, is_open, read_only, containers, result,
                  other_vars >>

GetSessionsClose ==
  /\ pc # "idle"
  /\ pc' = "idle"
  /\ session_index' = 0
  /\ session_start_generator' = NoGenerator
  /\ session_completion_generator' = NoGenerator
  /\ session_configuration_generator' = NoGenerator
  /\ session_completion' = Unbound
  /\ sessions' = << >>
  /\ sessions_error' = NoSessionsError
  /\ UNCHANGED << store_vars, result, other_vars >>

\* --------------------------------------------------------------- serializer

\* A Python value of the serializer wrappers: bytes (a sequence of byte
\* values), str (a sequence of code points) or None.
Bytes(value) == [ type |-> "bytes", value |-> value ]
Str(value) == [ type |-> "str", value |-> value ]
None == [ type |-> "NoneType", value |-> << >> ]

\* An attribute value the serializer has no representation for.
Unsupported == [ type |-> "object", value |-> << >> ]

\* The characters of the serialized form: U+007B, U+007D, the two container
\* type tags U+0061 and U+0062, and the characters of a text attribute,
\* U+0061 and U+00E9.
LEFT_BRACE == 123
RIGHT_BRACE == 125
LATIN_SMALL_A == 97
LATIN_SMALL_B == 98
LATIN_SMALL_E_ACUTE == 233

\* UTF-8: lead byte and continuation byte of U+00E9.
E_ACUTE_LEAD_BYTE == 195
E_ACUTE_CONTINUATION_BYTE == 169

\* The byte values serialized data is made of.
DataBytes ==
  { LEFT_BRACE, RIGHT_BRACE, LATIN_SMALL_A, LATIN_SMALL_B,
    E_ACUTE_LEAD_BYTE, E_ACUTE_CONTINUATION_BYTE }

\* The characters a text attribute is made of.
TextCharacters == { LATIN_SMALL_A, LATIN_SMALL_E_ACUTE }

\* The sequences over a set of at least low and at most high elements.
SeqsOf(set, low, high) == UNION { [1 .. n -> set] : n \in low .. high }

\* The container types the serializer wrappers are called with.
SerializerContainerTypes == { CONTAINER_TYPE_EVENT, CONTAINER_TYPE_EVENT_TAG }

\* The tag the serialized form carries for the container type.
SerializerTag ==
  [ t \in SerializerContainerTypes |->
      IF t = CONTAINER_TYPE_EVENT THEN LATIN_SMALL_A ELSE LATIN_SMALL_B ]

\* An attribute container with one attribute, text: a str, None, or a
\* value the serializer cannot represent.
AttributeContainer(type, text) == [ container_type |-> type, text |-> text ]

\* The containers handed to _SerializeAttributeContainer.
AttributeContainers ==
  { AttributeContainer(t, text) :
      t \in SerializerContainerTypes,
      text \in { None, Unsupported }
                 \cup { Str(v) : v \in SeqsOf(TextCharacters, 1, MaxTextLen) } }

\* The serialized data handed to _DeserializeAttributeContainer.
SerializedData == { Bytes(v) : v \in SeqsOf(DataBytes, 0, MaxDataLen) }

\* bytes.decode('utf-8') succeeds: every byte below 0x80 stands alone, every
\* lead byte 0xC2..0xDF is followed by one continuation byte 0x80..0xBF
\* (longer forms have lead bytes above 0xDF, which are not drawn here).
RECURSIVE Utf8Valid(_)
Utf8Valid(bytes) ==
  IF bytes = << >>
    THEN TRUE
  ELSE IF Head(bytes) < 128
    THEN Utf8Valid(Tail(bytes))
  ELSE IF /\ Head(bytes) \in 194 .. 223
          /\ Len(bytes) >= 2
          /\ bytes[2] \in 128 .. 191
    THEN Utf8Valid(Tail(Tail(bytes)))
  ELSE FALSE

\* bytes.decode('utf-8') of valid data: the code points.
RECURSIVE Utf8Decode(_)
Utf8Decode(bytes) ==
  IF bytes = << >>
    THEN << >>
  ELSE IF Head(bytes) < 128
    THEN << Head(bytes) >> \o Utf8Decode(Tail(bytes))
  ELSE << (Head(bytes) - 192) * 64 + (bytes[2] - 128) >>
         \o Utf8Decode(Tail(Tail(bytes)))

\* JSONAttributeContainerSerializer.WriteSerialized: the serialized form of
\* the container as a string, left brace, type tag, text, right brace; a
\* None attribute is left out; the empty string when an attribute cannot be
\* represented.
WriteSerialized(container) ==
  IF container.text = Unsupported
    THEN Str(<< >>)
    ELSE Str(<< LEFT_BRACE, SerializerTag[container.container_type] >>
               \o container.text.value \o << RIGHT_BRACE >>)

\* What ReadSerialized returned or raised.
ReadResult(error, value) == [ error |-> error, value |-> value ]

\* JSONAttributeContainerSerializer.ReadSerialized: the container the string
\* is the serialized form of; ValueError for a string that is not braced
\* text, TypeError for braced text that is not a container.
ReadSerialized(serialized_string) ==
  LET string == serialized_string.value
      inner == SubSeq(string, 2, Len(string) - 1)
  IN IF \/ Len(string) < 2
        \/ string[1] # LEFT_BRACE
        \/ string[Len(string)] # RIGHT_BRACE
        \/ \E i \in 1 .. Len(inner) : inner[i] \in { LEFT_BRACE, RIGHT_BRACE }
       THEN ReadResult("ValueError", None)
     ELSE IF \/ inner = << >>
             \/ \A t \in SerializerContainerTypes : SerializerTag[t] # inner[1]
             \/ \E i \in 2 .. Len(inner) : inner[i] \notin TextCharacters
       THEN ReadResult("TypeError", None)
     ELSE ReadResult("none",
            AttributeContainer(
              CHOOSE t \in SerializerContainerTypes :
                SerializerTag[t] = inner[1],
              IF Len(inner) = 1 THEN None ELSE Str(Tail(inner))))

\* What a serializer wrapper returned or raised.
Returned(op, value) ==
  [ op |-> op, error |-> "none", message |-> "", value |-> value ]
Raised(op, error, message) ==
  [ op |-> op, error |-> error, message |-> message, value |-> None ]
NoSerializerResult == Returned("none", None)

\* The profiler: StartTiming and StopTiming of the serializers profiler,
\* called when one is set.
StopTiming_OnReturnOnly(type) ==
  timings' = IF serializers_profiler /\ serializer_result'.error = "none"
               THEN [timings EXCEPT ![type] = @ - 1]
               ELSE timings
StartTiming(type) ==
  timings' = IF serializers_profiler
               THEN [timings EXCEPT ![type] = @ + 1]
               ELSE timings
StopTiming(type) ==
  timings' = IF serializers_profiler
               THEN [timings EXCEPT ![type] = @ - 1]
               ELSE timings

\* The frame of the serializer actions.
SerializerFrame ==
  UNCHANGED << store_vars, result, generator_vars, reader_state, close_calls,
               with_stack, exception_type, events_vars, read_vars, kept_sessions,
               parser_vars, formatter_vars >>

SerializerInit ==
  /\ serializers_profiler = FALSE
  /\ timings = [t \in SerializerContainerTypes |-> 0]
  /\ serializer_pc = "idle"
  /\ attribute_container = None
  /\ timed_container_type = "none"
  /\ serialized_data = None
  /\ serializer_result = NoSerializerResult
  /\ round_trip = FALSE

\* SetSerializersProfiler: a profiler is set, or None.
SetSerializersProfiler(profiler) ==
  /\ serializer_pc = "idle"
  /\ serializers_profiler' = profiler
  /\ UNCHANGED << stored_data, timings, serializer_pc, attribute_container,
                  timed_container_type, serialized_data, serializer_result,
                  round_trip >>
  /\ SerializerFrame

\* _SerializeAttributeContainer up to the try statement.
SerializeBegin(container) ==
  /\ serializer_pc = "idle"
  /\ serializer_pc' = "serialize"
  /\ attribute_container' = container
  /\ timed_container_type' = container.container_type
  /\ serialized_data' = None
  /\ serializer_result' = NoSerializerResult
  /\ round_trip' = FALSE
  /\ StartTiming(container.container_type)
  /\ UNCHANGED << stored_data, serializers_profiler >>
  /\ SerializerFrame

\* SerializeReturn that hands on whatever WriteSerialized returned.
SerializeReturn_Unchecked(attribute_container_data) ==
  Returned("Serialize", attribute_container_data)

\* _SerializeAttributeContainer, lines 164-176: what the call returns or
\* raises for the data WriteSerialized returned.
SerializeReturn(attribute_container_data) ==
  IF Len(attribute_container_data.value) = 0
    THEN Raised("Serialize", "IOError",
                "Unable to serialize attribute container")
    ELSE Returned("Serialize", attribute_container_data)

\* _SerializeAttributeContainer from the try statement to its end.
SerializeEnd ==
  /\ serializer_pc = "serialize"
  /\ serializer_pc' = "idle"
  /\ serializer_result' = SerializeReturn(WriteSerialized(attribute_container))
  /\ StopTiming(timed_container_type)
  /\ UNCHANGED << stored_data, serializers_profiler, attribute_container,
                  timed_container_type, serialized_data, round_trip >>
  /\ SerializerFrame

\* _DeserializeAttributeContainer up to the try statement; data that is
\* empty makes it return None at once.
DeserializeBegin(type, data, of_serialize) ==
  /\ serializer_pc = "idle"
  /\ timed_container_type' = type
  /\ serialized_data' = data
  /\ round_trip' = of_serialize
  /\ attribute_container' =
       IF of_serialize THEN attribute_container ELSE None
  /\ IF Len(data.value) = 0
       THEN /\ serializer_result' = Returned("Deserialize", None)
            /\ UNCHANGED << serializer_pc, timings >>
       ELSE /\ serializer_result' = NoSerializerResult
            /\ serializer_pc' = "deserialize"
            /\ StartTiming(type)
  /\ UNCHANGED << stored_data, serializers_profiler >>
  /\ SerializerFrame

\* _DeserializeAttributeContainer called with the data the backend read.
Deserialize(type) == DeserializeBegin(type, stored_data, FALSE)

\* _DeserializeAttributeContainer called with what the last call of
\* _SerializeAttributeContainer returned, and the type of its container.
DeserializeSerialized ==
  /\ serializer_result.op = "Serialize"
  /\ serializer_result.error = "none"
  /\ DeserializeBegin(attribute_container.container_type,
                      serializer_result.value, TRUE)

\* DeserializeReturn that returns None for data it cannot decode or read.
DeserializeReturn_ErrorsPassed(data) ==
  IF data.type # "bytes" \/ ~Utf8Valid(data.value)
    THEN Returned("Deserialize", None)
    ELSE Returned("Deserialize",
                  ReadSerialized(Str(Utf8Decode(data.value))).value)

\* _DeserializeAttributeContainer, lines 111-126: what the call returns or
\* raises for non-empty data.  A str has no decode method: the
\* AttributeError is not one of the exceptions caught.
DeserializeReturn(data) ==
  IF data.type # "bytes"
    THEN Raised("Deserialize", "AttributeError",
                "'str' object has no attribute 'decode'")
  ELSE IF ~Utf8Valid(data.value)
    THEN Raised("Deserialize", "IOError", "Unable to decode serialized data")
  ELSE LET read == ReadSerialized(Str(Utf8Decode(data.value)))
       IN IF read.error \in { "TypeError", "ValueError" }
            THEN Raised("Deserialize", "IOError",
                        "Unable to read serialized data")
            ELSE Returned("Deserialize", read.value)

\* _DeserializeAttributeContainer from the try statement to its end.
DeserializeEnd ==
  /\ serializer_pc = "deserialize"
  /\ serializer_pc' = "idle"
  /\ serializer_result' = DeserializeReturn(serialized_data)
  /\ StopTiming(timed_container_type)
  /\ UNCHANGED << stored_data, serializers_profiler, attribute_container,
                  timed_container_type, serialized_data, round_trip >>
  /\ SerializerFrame

\* ------------------------------------------------------------ storage reader

\* The storage readers a caller has constructed.
Readers == 1 .. MaxReaders

\* The exceptions the body of a with statement raises.
BodyExceptions == { "IOError", "KeyError" }

reader_vars == << reader_state, close_calls, with_stack, exception_type >>

\* The frame of the storage reader actions.
ReaderFrame ==
  UNCHANGED << store_vars, result, generator_vars, serializer_vars,
               events_vars, read_vars, kept_sessions,
               parser_vars, formatter_vars >>

ReaderInit ==
  /\ reader_state = [reader \in Readers |-> "new"]
  /\ close_calls = [reader \in Readers |-> 0]
  /\ with_stack = << >>
  /\ exception_type = "none"

\* StorageReader.Close: the backend closes the reader.
ReaderClose(reader) ==
  /\ reader_state' = [reader_state EXCEPT ![reader] = "closed"]
  /\ close_calls' = [close_calls EXCEPT ![reader] = @ + 1]

\* StorageReader.__enter__, called by a with statement that is entered:
\* returns self, the reader the with statement then holds.
ReaderEnter(reader) ==
  /\ exception_type = "none"
  /\ reader_state[reader] = "new"
  /\ reader_state' = [reader_state EXCEPT ![reader] = "entered"]
  /\ with_stack' = Append(with_stack, reader)
  /\ UNCHANGED << close_calls, exception_type >>
  /\ ReaderFrame

\* The body of the innermost with statement raises.
BodyRaise(raised) ==
  /\ exception_type = "none"
  /\ with_stack # << >>
  /\ exception_type' = raised
  /\ UNCHANGED << reader_state, close_calls, with_stack >>
  /\ ReaderFrame

\* ReaderExit with an __exit__ that returns True: the with statement drops
\* the exception of its body.
ReaderExit_Suppressing(reader) ==
  /\ with_stack # << >>
  /\ reader = with_stack[Len(with_stack)]
  /\ with_stack' = SubSeq(with_stack, 1, Len(with_stack) - 1)
  /\ ReaderClose(reader)
  /\ exception_type' = "none"
  /\ ReaderFrame

\* StorageReader.__exit__, called when the innermost with statement is left,
\* its body completed or an exception of it in flight: calls Close and
\* returns None, so the with statement re-raises the exception.
ReaderExit(reader) ==
  /\ with_stack # << >>
  /\ reader = with_stack[Len(with_stack)]
  /\ with_stack' = SubSeq(with_stack, 1, Len(with_stack) - 1)
  /\ ReaderClose(reader)
  /\ UNCHANGED exception_type
  /\ ReaderFrame

\* The caller of the outermost with statement handles the exception that
\* reached it.
CallerCatch ==
  /\ with_stack = << >>
  /\ exception_type # "none"
  /\ exception_type' = "none"
  /\ UNCHANGED << reader_state, close_calls, with_stack >>
  /\ ReaderFrame

\* ------------------------------------------------------------ sorted events

\* The timestamps of the events written.
Timestamps == 1 .. MaxTimestamp

\* An event container as handed to the store.
Event(timestamp) ==
  [ container_type |-> CONTAINER_TYPE_EVENT,
    session_identifier |-> 0,
    identifier |-> 0,
    timestamp |-> timestamp ]

\* A time range: the timestamps from start_timestamp up to, not including,
\* end_timestamp.
TimeRange(start_timestamp, end_timestamp) ==
  [ type |-> "TimeRange", value |-> << start_timestamp, end_timestamp >> ]

\* The time ranges handed to GetSortedEvents, besides None.
TimeRanges ==
  { TimeRange(start_timestamp, end_timestamp) :
      start_timestamp \in Timestamps,
      end_timestamp \in 2 .. MaxTimestamp + 1 }

\* The event is one the time range selects.
InTimeRange(event, range) ==
  \/ range = None
  \/ /\ range.type = "TimeRange"
     /\ range.value[1] <= event.timestamp
     /\ event.timestamp < range.value[2]

\* The generator GetSortedEvents returns, with the events it yields.
EventGenerator(events) == [ type |-> "generator", value |-> events ]

\* The event put into a sequence sorted by timestamp, after the events of
\* the same timestamp.
RECURSIVE InsertEvent(_, _)
InsertEvent(event, events) ==
  IF events = << >>
    THEN << event >>
  ELSE IF event.timestamp < Head(events).timestamp
    THEN << event >> \o events
  ELSE << Head(events) >> \o InsertEvent(event, Tail(events))

\* The events sorted by timestamp.
RECURSIVE SortEvents(_)
SortEvents(events) ==
  IF events = << >>
    THEN << >>
    ELSE InsertEvent(events[Len(events)],
                     SortEvents(SubSeq(events, 1, Len(events) - 1)))

\* VisibleEvents of a backend that reads the events from its file only.
VisibleEvents_Flushed == SubSeq(containers[CONTAINER_TYPE_EVENT], 1, flushed)

\* The events GetSortedEvents draws from: all events written to the store,
\* those pending being flushed included.
VisibleEvents == containers[CONTAINER_TYPE_EVENT]

\* The frame of the event actions that do not write.
EventsFrame ==
  UNCHANGED << store_vars, result, generator_vars, serializer_vars,
               reader_state, close_calls, with_stack, exception_type,
               read_vars, kept_sessions,
               parser_vars, formatter_vars >>

EventsInit ==
  /\ flushed = 0
  /\ time_range = None
  /\ sorted_events = None

\* The backend flushes the events written to its file.
Flush ==
  /\ sorted_events = None
  /\ flushed < Len(containers[CONTAINER_TYPE_EVENT])
  /\ flushed' = Len(containers[CONTAINER_TYPE_EVENT])
  /\ UNCHANGED << time_range, sorted_events >>
  /\ EventsFrame

\* GetSortedEvents: the events visible to the store that the time range
\* selects, in increasing chronological order.
GetSortedEvents(range) ==
  /\ sorted_events = None
  /\ time_range' = range
  /\ sorted_events' =
       EventGenerator(
         SelectSeq(SortEvents(VisibleEvents),
                   LAMBDA event : InTimeRange(event, range)))
  /\ UNCHANGED flushed
  /\ EventsFrame

\* The caller has consumed or dropped the generator.
SortedEventsClose ==
  /\ sorted_events # None
  /\ time_range' = None
  /\ sorted_events' = None
  /\ UNCHANGED flushed
  /\ EventsFrame

\* ------------------------------------------------------------- enumerations

\* The callers that enumerate containers with GetAttributeContainers.
Enumerators == { 1, 2 }

\* The container types the callers enumerate.
EnumeratedContainerTypes ==
  { CONTAINER_TYPE_SESSION_START, CONTAINER_TYPE_SESSION_COMPLETION }

\* What a caller holds: the generator GetAttributeContainers returned for
\* the container type, and the containers next(generator) has returned.
Enumeration(generator, type, yielded) ==
  [ generator |-> generator, container_type |-> type, yielded |-> yielded ]

NoEnumeration == Enumeration(NoGenerator, "none", << >>)

\* The frame of the steps of a caller that enumerates or reads.
ReadFrame ==
  UNCHANGED << store_vars, generator_vars, serializer_vars, reader_state,
               close_calls, with_stack, exception_type, events_vars,
               kept_sessions, parser_vars, formatter_vars >>

ReadInit ==
  /\ enumerations = [enumerator \in Enumerators |-> NoEnumeration]
  /\ knowledge_base = << >>

\* GetAttributeContainers called by a caller: a new generator at the first
\* container of the type.
GetAttributeContainers(enumerator, type) ==
  /\ pc = "idle"
  /\ ~RaiseIfNotReadable
  /\ enumerations[enumerator] = NoEnumeration
  /\ enumerations' =
       [enumerations EXCEPT ![enumerator] = Enumeration(Generator, type, << >>)]
  /\ UNCHANGED << result, knowledge_base >>
  /\ ReadFrame

\* NextAttributeContainer of a backend that keeps one cursor for each
\* container type: every generator of the type moves on.
NextAttributeContainer_SharedCursor(enumerator) ==
  /\ enumerations[enumerator].generator.exists
  /\ ~StopIteration(enumerations[enumerator].generator,
                    enumerations[enumerator].container_type)
  /\ enumerations' =
       [e \in Enumerators |->
          IF e = enumerator
            THEN Enumeration(
                   Advance(enumerations[e].generator),
                   enumerations[e].container_type,
                   Append(enumerations[e].yielded,
                          NextContainer(enumerations[e].generator,
                                        enumerations[e].container_type)))
          ELSE IF enumerations[e].container_type =
                    enumerations[enumerator].container_type
            THEN [enumerations[e] EXCEPT
                    !.generator = Advance(enumerations[e].generator)]
          ELSE enumerations[e]]
  /\ UNCHANGED << result, knowledge_base >>
  /\ ReadFrame

\* next(generator) called by a caller returns the next container of the
\* type, in write order.
NextAttributeContainer(enumerator) ==
  /\ enumerations[enumerator].generator.exists
  /\ ~StopIteration(enumerations[enumerator].generator,
                    enumerations[enumerator].container_type)
  /\ enumerations' =
       [enumerations EXCEPT ![enumerator] =
          Enumeration(
            Advance(enumerations[enumerator].generator),
            enumerations[enumerator].container_type,
            Append(enumerations[enumerator].yielded,
                   NextContainer(enumerations[enumerator].generator,
                                 enumerations[enumerator].container_type)))]
  /\ UNCHANGED << result, knowledge_base >>
  /\ ReadFrame

\* A caller drops its generator, exhausted or not.
CloseAttributeContainers(enumerator) ==
  /\ enumerations[enumerator] # NoEnumeration
  /\ enumerations' = [enumerations EXCEPT ![enumerator] = NoEnumeration]
  /\ UNCHANGED << result, knowledge_base >>
  /\ ReadFrame

\* ------------------------------------------------- ReadSystemConfiguration

\* A call of ReadSystemConfiguration that ended with the outcome, having
\* passed the artifacts to the knowledge base it was given.
ReadSystemConfigurationEnds(outcome, artifacts) ==
  /\ result' =
       Result("ReadSystemConfiguration", CONTAINER_TYPE_SYSTEM_CONFIGURATION,
              outcome, FALSE)
  /\ knowledge_base' = artifacts
  /\ UNCHANGED enumerations
  /\ ReadFrame

\* ReadSystemConfiguration that leaves the loop after the first container.
ReadSystemConfiguration_FirstOnly ==
  IF ~HasAttributeContainers(CONTAINER_TYPE_SYSTEM_CONFIGURATION)
    THEN ReadSystemConfigurationEnds(NoError, << >>)
  ELSE IF RaiseIfNotReadable
    THEN ReadSystemConfigurationEnds(NotReadableError, << >>)
  ELSE ReadSystemConfigurationEnds(
         NoError, << containers[CONTAINER_TYPE_SYSTEM_CONFIGURATION][1] >>)

\* ReadSystemConfiguration, lines 359-374, with a knowledge base that has
\* been passed nothing yet: when HasAttributeContainers is true, every
\* container of the generator of GetAttributeContainers, which raises when
\* the store is closed, is passed to ReadSystemConfigurationArtifact.
ReadSystemConfiguration ==
  IF ~HasAttributeContainers(CONTAINER_TYPE_SYSTEM_CONFIGURATION)
    THEN ReadSystemConfigurationEnds(NoError, << >>)
  ELSE IF RaiseIfNotReadable
    THEN ReadSystemConfigurationEnds(NotReadableError, << >>)
  ELSE ReadSystemConfigurationEnds(
         NoError, containers[CONTAINER_TYPE_SYSTEM_CONFIGURATION])

\* ------------------------------------------- the caller of GetSessions

\* What a caller has kept of an enumeration of GetSessions: the sessions it
\* was given, the error that ended the enumeration and how far it got.
KeptSessions(yielded, error, state) ==
  [ kept |-> TRUE, sessions |-> yielded, error |-> error, state |-> state ]

NoKeptSessions ==
  [ kept |-> FALSE, sessions |-> << >>, error |-> NoSessionsError,
    state |-> "idle" ]

KeptInit == kept_sessions = NoKeptSessions

\* The caller keeps what the enumeration under way has given it so far.
KeepSessions ==
  /\ pc # "idle"
  /\ ~kept_sessions.kept
  /\ kept_sessions' = KeptSessions(sessions, sessions_error, pc)
  /\ UNCHANGED << store_vars, result, generator_vars, serializer_vars,
                  reader_state, close_calls, with_stack, exception_type,
                  events_vars, read_vars, parser_vars, formatter_vars >>

\* --------------------------------------------------- SantaTextPlugin

\* SantaTextPlugin._SUPPORTED_KEYS: the names of _LINE_STRUCTURES.
SUPPORTED_KEYS ==
  { "execution_line", "process_exit_line", "file_system_event_line",
    "mount_line", "umount_line", "quota_exceeded_line" }

\* The keys _ParseRecord is called with: the supported ones and another.
Keys == SUPPORTED_KEYS \cup { "unknown_line" }

\* The DATA_TYPE of the four event data classes.
SANTA_MOUNT_DATA_TYPE == "santa:diskmount"
SANTA_EXECUTION_DATA_TYPE == "santa:execution"
SANTA_FILE_SYSTEM_EVENT_DATA_TYPE == "santa:file_system_event"
SANTA_PROCESS_EXIT_DATA_TYPE == "santa:process_exit"

\* The months of the date and time values of the lines: two of the year
\* and one beyond it.
MONTHS_PER_YEAR == 12
Months == { MONTHS_PER_YEAR - 1, MONTHS_PER_YEAR, MONTHS_PER_YEAR + 1 }

\* The tokens of _DATE_AND_TIME, 2018-MM-19T03:09:13.120Z: year, month, day
\* of month, hours, minutes, seconds and milliseconds.
DateAndTime(month) ==
  [ type |-> "ParseResults", value |-> << 2018, month, 19, 3, 9, 13, 120 >> ]

\* The values of the date_time and appearance tokens of a structure: None
\* when the structure has no such token.
TimeElementsStructures == { None } \cup { DateAndTime(month) : month \in Months }

\* The tokens of a parsed log line that _ParseRecord reads the date and time
\* values from; only _DISK_MOUNT_LINE has an appearance.
Structures(key) ==
  [ date_time : TimeElementsStructures,
    appearance : IF key = "mount_line"
                   THEN TimeElementsStructures
                   ELSE { None } ]

\* _GetValueFromStructure: the value of the token of the name given.
GetValueFromStructure(structure, name) ==
  IF name = "date_time" THEN structure.date_time ELSE structure.appearance

\* dfdatetime TimeElementsInMilliseconds of a time elements tuple.
TimeElementsInMilliseconds(time_elements_tuple) ==
  [ type |-> "TimeElementsInMilliseconds", value |-> time_elements_tuple ]

\* _ParseTimeElements: unpacking None is a TypeError, a month that is not
\* one of the year a ValueError; both become a ParseError.
ParseTimeElements(time_elements_structure) ==
  IF time_elements_structure = None
    THEN Raised("_ParseTimeElements", "ParseError",
                "Unable to parse time elements with error")
  ELSE IF time_elements_structure.value[2] \notin 1 .. MONTHS_PER_YEAR
    THEN Raised("_ParseTimeElements", "ParseError",
                "Unable to parse time elements with error")
  ELSE Returned("_ParseTimeElements",
                TimeElementsInMilliseconds(time_elements_structure.value))

\* An event data object of the data type given; the date and time
\* attributes of the four classes are None until set.
EventData(data_type) ==
  [ data_type |-> data_type, last_run_time |-> None, exit_time |-> None,
    last_written_time |-> None, appearance_time |-> None ]

\* Lines 413-438: event_data after the first if statement; unbound when the
\* key is not execution_line.
ExecutionEventData(key, date_time) ==
  IF key = "execution_line"
    THEN [ EventData(SANTA_EXECUTION_DATA_TYPE)
             EXCEPT !.last_run_time = date_time ]
    ELSE None

\* Lines 440-490: event_data after the second if statement, before the
\* appearance of a mount line is parsed.
RecordEventData(key, date_time) ==
  IF key = "process_exit_line"
    THEN [ EventData(SANTA_PROCESS_EXIT_DATA_TYPE)
             EXCEPT !.exit_time = date_time ]
  ELSE IF key = "file_system_event_line"
    THEN [ EventData(SANTA_FILE_SYSTEM_EVENT_DATA_TYPE)
             EXCEPT !.last_written_time = date_time ]
  ELSE IF key = "umount_line"
    THEN [ EventData(SANTA_MOUNT_DATA_TYPE)
             EXCEPT !.last_written_time = date_time ]
  ELSE IF key = "mount_line"
    THEN [ EventData(SANTA_MOUNT_DATA_TYPE)
             EXCEPT !.last_written_time = date_time ]
  ELSE ExecutionEventData(key, date_time)

\* _ParseRecord returns or raises: the event data it has produced, if any,
\* is what the parser mediator was given.
ParseRecordEnds(key, structure, outcome, produced) ==
  /\ santa_key' = key
  /\ santa_structure' = structure
  /\ santa_result' = outcome
  /\ produced_event_data' = produced_event_data \o produced
  /\ UNCHANGED << store_vars, result, generator_vars, serializer_vars,
                  reader_state, close_calls, with_stack, exception_type,
                  events_vars, read_vars, kept_sessions, formatter_vars >>

\* _ParseRecord that parses the date and time before it looks at the key.
ParseRecord_DateAndTimeFirst(key, structure) ==
  LET date_time ==
        ParseTimeElements(GetValueFromStructure(structure, "date_time"))
  IN IF date_time.error # "none"
       THEN ParseRecordEnds(key, structure,
              Raised("_ParseRecord", "ParseError", date_time.message), << >>)
     ELSE IF key \notin SUPPORTED_KEYS
       THEN ParseRecordEnds(key, structure,
              Raised("_ParseRecord", "ParseError",
                     "Unable to parse record, unknown structure"), << >>)
     ELSE IF key = "quota_exceeded_line"
       THEN ParseRecordEnds(key, structure,
                            Returned("_ParseRecord", None), << >>)
     ELSE ParseRecordEnds(key, structure, Returned("_ParseRecord", None),
                          << RecordEventData(key, date_time.value) >>)

\* The appearance_time of a mount line (lines 492-495): set when the
\* structure has an appearance, and then the appearance parsed.
AppearanceTime(structure) ==
  LET appearance == GetValueFromStructure(structure, "appearance")
  IN IF appearance = None
       THEN Returned("_ParseTimeElements", None)
       ELSE ParseTimeElements(appearance)

\* AppearanceTime of a _ParseRecord that leaves appearance_time unset when
\* the appearance cannot be parsed.
MountEventData_AppearanceOptional(event_data, structure) ==
  Returned("_ParseRecord",
           IF AppearanceTime(structure).error = "none"
             THEN [ event_data EXCEPT
                      !.appearance_time = AppearanceTime(structure).value ]
             ELSE event_data)

\* Lines 478-495: the event data of a mount line with its appearance_time,
\* or the ParseError of the appearance.
MountEventData(event_data, structure) ==
  IF AppearanceTime(structure).error # "none"
    THEN Raised("_ParseRecord", "ParseError",
                AppearanceTime(structure).message)
    ELSE Returned("_ParseRecord",
                  [ event_data EXCEPT
                      !.appearance_time = AppearanceTime(structure).value ])

\* SantaTextPlugin._ParseRecord.
ParseRecord(key, structure) ==
  IF key \notin SUPPORTED_KEYS
    THEN ParseRecordEnds(key, structure,
           Raised("_ParseRecord", "ParseError",
                  "Unable to parse record, unknown structure"), << >>)
  ELSE IF key = "quota_exceeded_line"
    THEN ParseRecordEnds(key, structure,
                         Returned("_ParseRecord", None), << >>)
  ELSE
    LET date_time ==
          ParseTimeElements(GetValueFromStructure(structure, "date_time"))
        event_data ==
          IF key = "mount_line"
            THEN MountEventData(RecordEventData(key, date_time.value),
                                structure)
            ELSE Returned("_ParseRecord",
                          RecordEventData(key, date_time.value))
    IN IF date_time.error # "none"
         THEN ParseRecordEnds(key, structure,
                Raised("_ParseRecord", "ParseError", date_time.message),
                << >>)
       ELSE IF event_data.error # "none"
         THEN ParseRecordEnds(key, structure, event_data, << >>)
       ELSE ParseRecordEnds(key, structure, Returned("_ParseRecord", None),
                            << event_data.value >>)

ParserInit ==
  /\ santa_key = "none"
  /\ santa_structure = [ date_time |-> None, appearance |-> None ]
  /\ produced_event_data = << >>
  /\ santa_result = NoSerializerResult

\* ------------------------------------- ShellItemFileEntryEventFormatter

\* The keys of the event values of a shell item file entry the formatter
\* reads or writes, and one it does neither.
EventValueKeys == { "long_name", "name", "file_entry_name", "origin" }

\* The values of event values: None, the empty string and two names.
EventValues ==
  { None, Str(<< >>), Str(<< LATIN_SMALL_A >>), Str(<< LATIN_SMALL_B >>) }

\* The event values dictionaries.
EventValuesDictionaries ==
  UNION { [ names -> EventValues ] : names \in SUBSET EventValueKeys }

\* dict.get(name, default).
Get(values, name, default) ==
  IF name \in DOMAIN values THEN values[name] ELSE default

\* values[name] = value.
SetItem(values, name, value) ==
  [ n \in DOMAIN values \cup { name } |->
      IF n = name THEN value ELSE values[n] ]

\* The truth value of an event value: None and the empty string are false.
Truthy(value) == value # None /\ value.value # << >>

\* FormatEventValues that falls back to name only when long_name is None or
\* absent.
FormatEventValues_EmptyLongNameKept(values) ==
  LET long_name == SetItem(values, "file_entry_name",
                           Get(values, "long_name", None))
  IN IF long_name["file_entry_name"] = None
       THEN SetItem(long_name, "file_entry_name",
                    Get(long_name, "name", None))
       ELSE long_name

\* ShellItemFileEntryEventFormatter.FormatEventValues (lines 21-23).
FormatEventValues(values) ==
  LET long_name == SetItem(values, "file_entry_name",
                           Get(values, "long_name", None))
  IN IF ~Truthy(long_name["file_entry_name"])
       THEN SetItem(long_name, "file_entry_name",
                    Get(long_name, "name", None))
       ELSE long_name

FormatterInit ==
  /\ event_values = << >>
  /\ format_calls = 0

\* FormatEventValues is called with the event values dictionary.
FormatEventValuesCall ==
  /\ format_calls < MaxFormatCalls
  /\ format_calls' = format_calls + 1
  /\ event_values' = FormatEventValues(event_values)
  /\ UNCHANGED << store_vars, result, generator_vars, serializer_vars,
                  reader_state, close_calls, with_stack, exception_type,
                  events_vars, read_vars, kept_sessions, parser_vars >>

\* ----------------------------------------------------------- specifications

\* A store operation is called between two enumerations, never inside one.
Idle == pc = "idle"

\* The call keeps the store within the bound of Spec: it wrote a container
\* only where there was room for one (a call that writes nothing is possible
\* on a full store).
Fits == result'.written => TotalContainers < MaxContainers

\* There is room for one more session container (the bound of SpecSessions).
SessionRoom ==
  SumOver([t \in SessionContainerTypes |-> Len(containers[t])],
          SessionContainerTypes) < MaxSessionRecords

\* The store after BaseStore.__init__, of either storage type, not yet opened.
Init ==
  /\ storage_type \in STORAGE_TYPES
  /\ is_open = FALSE
  /\ read_only = FALSE
  /\ last_session = 0
  /\ containers = [t \in CONTAINER_TYPES |-> << >>]
  /\ result = NoResult
  /\ GeneratorInit
  /\ stored_data = Bytes(<< >>)
  /\ SerializerInit
  /\ ReaderInit
  /\ EventsInit
  /\ ReadInit
  /\ KeptInit
  /\ ParserInit
  /\ FormatterInit

Next ==
  \/ \E as_read_only \in BOOLEAN : Idle /\ Open(as_read_only)
  \/ Idle /\ Close
  \/ \E t \in CONTAINER_TYPES : \E c \in ContainersOfType(t) :
       Idle /\ AddAttributeContainer(c) /\ Fits
  \/ \E c \in ContainersOfType(CONTAINER_TYPE_SESSION_START) :
       Idle /\ WriteSessionStart(c) /\ Fits
  \/ \E c \in ContainersOfType(CONTAINER_TYPE_SESSION_CONFIGURATION) :
       Idle /\ WriteSessionConfiguration(c) /\ Fits
  \/ \E c \in ContainersOfType(CONTAINER_TYPE_SESSION_COMPLETION) :
       Idle /\ WriteSessionCompletion(c) /\ Fits
  \/ \E c \in ContainersOfType(CONTAINER_TYPE_TASK_START) :
       Idle /\ WriteTaskStart(c) /\ Fits
  \/ \E c \in ContainersOfType(CONTAINER_TYPE_TASK_COMPLETION) :
       Idle /\ WriteTaskCompletion(c) /\ Fits
  \/ GetSessionsBegin
  \/ GetSessionsNext
  \/ GetSessionsClose

Spec == Init /\ [][Next]_vars

\* An open, writable session store as a backend hands it to the session
\* assembler: _last_session is the backend's to set, and a damaged store has
\* it larger or smaller than the number of session_start containers.
InitSessions ==
  /\ storage_type = STORAGE_TYPE_SESSION
  /\ is_open = TRUE
  /\ read_only = FALSE
  /\ last_session \in 0 .. MaxLastSession
  /\ containers = [t \in CONTAINER_TYPES |-> << >>]
  /\ result = NoResult
  /\ GeneratorInit
  /\ stored_data = Bytes(<< >>)
  /\ SerializerInit
  /\ ReaderInit
  /\ EventsInit
  /\ ReadInit
  /\ KeptInit
  /\ ParserInit
  /\ FormatterInit

NextSessions ==
  \/ \E c \in ContainersOfType(CONTAINER_TYPE_SESSION_START) :
       Idle /\ SessionRoom /\ WriteSessionStart(c)
  \/ \E c \in ContainersOfType(CONTAINER_TYPE_SESSION_CONFIGURATION) :
       Idle /\ SessionRoom /\ WriteSessionConfiguration(c)
  \/ \E c \in ContainersOfType(CONTAINER_TYPE_SESSION_COMPLETION) :
       Idle /\ SessionRoom /\ WriteSessionCompletion(c)
  \/ GetSessionsBegin
  \/ GetSessionsNext
  \/ GetSessionsClose

SpecSessions == InitSessions /\ [][NextSessions]_vars

\* The serializer wrappers of a store, called by a backend with the
\* containers it is given and the data it has read, whatever that data is;
\* the store itself is the one of BaseStore.__init__.
InitSerializer ==
  /\ storage_type = STORAGE_TYPE_SESSION
  /\ is_open = FALSE
  /\ read_only = FALSE
  /\ last_session = 0
  /\ containers = [t \in CONTAINER_TYPES |-> << >>]
  /\ result = NoResult
  /\ GeneratorInit
  /\ stored_data \in SerializedData
  /\ SerializerInit
  /\ ReaderInit
  /\ EventsInit
  /\ ReadInit
  /\ KeptInit
  /\ ParserInit
  /\ FormatterInit

NextSerializer ==
  \/ \E profiler \in BOOLEAN : SetSerializersProfiler(profiler)
  \/ \E container \in AttributeContainers : SerializeBegin(container)
  \/ SerializeEnd
  \/ \E type \in SerializerContainerTypes : Deserialize(type)
  \/ DeserializeSerialized
  \/ DeserializeEnd

SpecSerializer == InitSerializer /\ [][NextSerializer]_vars

\* The storage readers of a caller that uses them in with statements, nested
\* or one after the other.
InitReader == Init

NextReader ==
  \/ \E reader \in Readers : ReaderEnter(reader)
  \/ \E raised \in BodyExceptions : BodyRaise(raised)
  \/ \E reader \in Readers : ReaderExit(reader)
  \/ CallerCatch

SpecReader == InitReader /\ [][NextReader]_vars

\* No event is being enumerated and there is room for one more container of
\* the type (the bound of SpecEvents).
EventsRoom(type) ==
  /\ sorted_events = None
  /\ Len(containers[type]) < MaxEvents

\* An open, writable session store to which events and event data are
\* written in any order and from which the sorted events are read.
InitEvents ==
  /\ storage_type = STORAGE_TYPE_SESSION
  /\ is_open = TRUE
  /\ read_only = FALSE
  /\ last_session = 0
  /\ containers = [t \in CONTAINER_TYPES |-> << >>]
  /\ result = NoResult
  /\ GeneratorInit
  /\ stored_data = Bytes(<< >>)
  /\ SerializerInit
  /\ ReaderInit
  /\ EventsInit
  /\ ReadInit
  /\ KeptInit
  /\ ParserInit
  /\ FormatterInit

NextEvents ==
  \/ \E timestamp \in Timestamps :
       /\ EventsRoom(CONTAINER_TYPE_EVENT)
       /\ AddAttributeContainer(Event(timestamp))
  \/ /\ EventsRoom(CONTAINER_TYPE_EVENT_DATA)
     /\ AddAttributeContainer(Container(CONTAINER_TYPE_EVENT_DATA, 0))
  \/ Flush
  \/ \E range \in TimeRanges \cup { None } : GetSortedEvents(range)
  \/ SortedEventsClose

SpecEvents == InitEvents /\ [][NextEvents]_vars

\* No caller holds a generator.
NoEnumerations == \A enumerator \in Enumerators :
                    enumerations[enumerator] = NoEnumeration

\* No enumeration is under way and there is room for one more session
\* container (the bound of SpecGenerators).
EnumeratedRoom ==
  /\ Idle
  /\ NoEnumerations
  /\ SumOver([t \in SessionContainerTypes |-> Len(containers[t])],
             SessionContainerTypes) < MaxEnumerated

\* An open, writable session store whose session containers are enumerated
\* by two callers of GetAttributeContainers and by GetSessions.
InitGenerators == InitSessions

NextGenerators ==
  \/ \E c \in ContainersOfType(CONTAINER_TYPE_SESSION_START) :
       EnumeratedRoom /\ WriteSessionStart(c)
  \/ \E c \in ContainersOfType(CONTAINER_TYPE_SESSION_CONFIGURATION) :
       EnumeratedRoom /\ WriteSessionConfiguration(c)
  \/ \E c \in ContainersOfType(CONTAINER_TYPE_SESSION_COMPLETION) :
       EnumeratedRoom /\ WriteSessionCompletion(c)
  \/ \E enumerator \in Enumerators : \E type \in EnumeratedContainerTypes :
       GetAttributeContainers(enumerator, type)
  \/ \E enumerator \in Enumerators : NextAttributeContainer(enumerator)
  \/ \E enumerator \in Enumerators : CloseAttributeContainers(enumerator)
  \/ NoEnumerations /\ GetSessionsBegin
  \/ GetSessionsNext
  \/ GetSessionsClose

SpecGenerators == InitGenerators /\ [][NextGenerators]_vars

\* The container types written to the store that is read (SpecRead).
ReadContainerTypes ==
  { CONTAINER_TYPE_SYSTEM_CONFIGURATION, CONTAINER_TYPE_EVENT }

\* A store of either storage type that is opened, written to, closed and
\* read with ReadSystemConfiguration and GetSessions in any order.
InitRead == Init

NextRead ==
  \/ \E as_read_only \in BOOLEAN : Idle /\ Open(as_read_only)
  \/ Idle /\ Close
  \/ \E t \in ReadContainerTypes : \E c \in ContainersOfType(t) :
       Idle /\ AddAttributeContainer(c) /\ Fits
  \/ Idle /\ ReadSystemConfiguration
  \/ GetSessionsBegin
  \/ GetSessionsNext
  \/ GetSessionsClose

SpecRead == InitRead /\ [][NextRead]_vars

\* ------------------------------------------------ claims on the write calls

\* The step is a call of store operation op (store operations are called
\* with no enumeration under way and leave the generator alone).
Called(op) == pc = "idle" /\ pc' = "idle" /\ result'.op = op

\* The container types the store contract keeps out of a store of the
\* storage type.
DisallowedContainerTypes ==
  IF storage_type = STORAGE_TYPE_TASK
    THEN { CONTAINER_TYPE_SESSION_START,
           CONTAINER_TYPE_SESSION_COMPLETION,
           CONTAINER_TYPE_SESSION_CONFIGURATION,
           CONTAINER_TYPE_SYSTEM_CONFIGURATION }
    ELSE { CONTAINER_TYPE_TASK_START, CONTAINER_TYPE_TASK_COMPLETION }

\* C1: on an open, writable store AddAttributeContainer of a container whose
\* type is disallowed for the storage type fails with an I/O error and
\* leaves the containers of the store unchanged.
C1_AddRejectsDisallowedType ==
  [][ ( /\ Called("AddAttributeContainer")
        /\ ~RaiseIfNotWritable
        /\ result'.container_type \in DisallowedContainerTypes )
      => ( /\ result'.error = "IOError"
           /\ containers' = containers ) ]_vars

\* The storage type each storage-type-checked wrapper requires.
RequiredStorageType ==
  [ WriteSessionStart |-> STORAGE_TYPE_SESSION,
    WriteSessionCompletion |-> STORAGE_TYPE_SESSION,
    WriteTaskStart |-> STORAGE_TYPE_TASK,
    WriteTaskCompletion |-> STORAGE_TYPE_TASK ]

\* C2: WriteSessionStart and WriteSessionCompletion on a writable store that
\* is not a session store, and WriteTaskStart and WriteTaskCompletion on a
\* writable store that is not a task store, fail with an I/O error without
\* reaching _WriteNewAttributeContainer: the store is unchanged.
C2_WrappersRejectStorageTypeMismatch ==
  [][ \A op \in DOMAIN RequiredStorageType :
        ( /\ Called(op)
          /\ ~RaiseIfNotWritable
          /\ storage_type # RequiredStorageType[op] )
        => ( /\ result'.error = "IOError"
             /\ result'.message # NotWritableError.message
             /\ ~result'.written
             /\ store_vars' = store_vars ) ]_vars

\* C2 witness: WriteTaskStart was called on an open, writable session store
\* that holds a container, and raised the storage type error.
C2_Witness ==
  /\ storage_type = STORAGE_TYPE_SESSION
  /\ is_open /\ ~read_only
  /\ TotalContainers > 0
  /\ result.op = "WriteTaskStart"
  /\ result.error = "IOError"
  /\ result.message = "Task completion not supported by storage type."

\* C3: WriteSessionConfiguration on an open, writable task store fails with
\* an I/O error and persists nothing.
C3_SessionConfigurationRejectedOnTaskStore ==
  [][ ( /\ Called("WriteSessionConfiguration")
        /\ ~RaiseIfNotWritable
        /\ storage_type = STORAGE_TYPE_TASK )
      => ( /\ result'.error = "IOError"
           /\ containers' = containers ) ]_vars

\* The operations of BaseStore that write to the store.
Mutators ==
  { "AddAttributeContainer", "WriteSessionStart", "WriteSessionCompletion",
    "WriteSessionConfiguration", "WriteTaskStart", "WriteTaskCompletion" }

\* C4: every mutator called on a store that is closed or read-only fails
\* with the not-writable error, whatever the container type and the storage
\* type, and leaves the containers and last_session unchanged.
C4_MutatorsFailWhenNotWritable ==
  [][ \A op \in Mutators :
        ( Called(op) /\ (~is_open \/ read_only) )
        => ( /\ result'.error = NotWritableError.error
             /\ result'.message = NotWritableError.message
             /\ ~result'.written
             /\ containers' = containers
             /\ last_session' = last_session ) ]_vars

\* C4 witness: AddAttributeContainer of an event was refused as not writable
\* by a read-only store that holds containers.
C4_Witness ==
  /\ is_open /\ read_only
  /\ TotalContainers > 0
  /\ result.op = "AddAttributeContainer"
  /\ result.container_type = CONTAINER_TYPE_EVENT
  /\ result.message = NotWritableError.message

\* C7: last_session counts the session_start containers written to the
\* store: each successful WriteSessionStart makes it grow by exactly one.
C7_LastSessionCountsSessionStarts ==
  [][ ( Called("WriteSessionStart") /\ result'.error = "none" )
      => ( /\ GetNumberOfAttributeContainers(CONTAINER_TYPE_SESSION_START)' =
                GetNumberOfAttributeContainers(CONTAINER_TYPE_SESSION_START) + 1
           /\ last_session' = last_session + 1 ) ]_vars

\* ------------------------------------------------------ claims on GetSessions

SessionStarts == containers[CONTAINER_TYPE_SESSION_START]

SessionConfigurations == containers[CONTAINER_TYPE_SESSION_CONFIGURATION]

SessionCompletions == containers[CONTAINER_TYPE_SESSION_COMPLETION]

\* The step is one iteration of the loop of GetSessions for session_index.
Iterates ==
  /\ pc = "running"
  /\ pc' # "idle"
  /\ session_index <= last_session

\* The records the iteration for session_index pulls from each generator.
PulledStart ==
  NextContainer(session_start_generator, CONTAINER_TYPE_SESSION_START)

PulledConfiguration ==
  NextContainer(session_configuration_generator,
                CONTAINER_TYPE_SESSION_CONFIGURATION)

PulledCompletion ==
  NextContainer(session_completion_generator,
                CONTAINER_TYPE_SESSION_COMPLETION)

StartExhausted ==
  StopIteration(session_start_generator, CONTAINER_TYPE_SESSION_START)

ConfigurationExhausted ==
  StopIteration(session_configuration_generator,
                CONTAINER_TYPE_SESSION_CONFIGURATION)

CompletionExhausted ==
  StopIteration(session_completion_generator,
                CONTAINER_TYPE_SESSION_COMPLETION)

\* A session as the claims describe it.
SessionOf(identifier, start, configuration, completion) ==
  [ identifier |-> identifier,
    session_start |-> start,
    session_configuration |-> configuration,
    session_completion |-> completion ]

\* C5: when the iteration for session index N <= last_session finds the
\* session_completion stream exhausted (and the start and configuration
\* records of N are in order), GetSessions yields session N built from the
\* N-th session_start (and configuration), with no completion attributes,
\* and raises no error.
C5_MissingCompletionTolerated ==
  [][ ( /\ Iterates
        /\ ~StartExhausted
        /\ CompletionExhausted
        /\ \/ ~session_configuration_generator.exists
           \/ /\ ~ConfigurationExhausted
              /\ PulledConfiguration.session_identifier =
                   PulledStart.session_identifier )
      => ( /\ pc' = "running"
           /\ sessions' = Append(sessions,
                SessionOf(PulledStart.session_identifier,
                          PulledStart.identifier,
                          IF session_configuration_generator.exists
                            THEN PulledConfiguration.identifier
                            ELSE 0,
                          0)) ) ]_vars

\* The store of C6: last_session = 3, three session_start records, no
\* session_configuration record, and the session_completion records of
\* sessions 1 and 3 only.
C6_Store ==
  /\ last_session = 3
  /\ Len(SessionStarts) = 3
  /\ Len(SessionConfigurations) = 0
  /\ Len(SessionCompletions) = 2
  /\ SessionCompletions[1].session_identifier =
       SessionStarts[1].session_identifier
  /\ SessionCompletions[2].session_identifier =
       SessionStarts[3].session_identifier
  /\ \A k \in 1 .. 2 :
       SessionCompletions[k].session_identifier #
         SessionStarts[2].session_identifier

\* C6: on the store of C6 GetSessions ends without an error and has yielded
\* exactly 3 sessions, sessions 1 and 3 with their own completion and
\* session 2 with none.
C6_SecondCompletionAbsent ==
  ( C6_Store /\ pc \in { "done", "error" } )
  => ( /\ pc = "done"
       /\ sessions =
            << SessionOf(SessionStarts[1].session_identifier, 1, 0, 1),
               SessionOf(SessionStarts[2].session_identifier, 2, 0, 0),
               SessionOf(SessionStarts[3].session_identifier, 3, 0, 2) >> )

\* The store of C8: last_session = N >= 1, N session_start and N
\* session_completion records, zero or N session_configuration records, the
\* k-th records of each stream sharing one session identifier.
C8_Store ==
  /\ last_session >= 1
  /\ Len(SessionStarts) = last_session
  /\ Len(SessionCompletions) = last_session
  /\ Len(SessionConfigurations) \in { 0, last_session }
  /\ \A k \in 1 .. last_session :
       /\ SessionCompletions[k].session_identifier =
            SessionStarts[k].session_identifier
       /\ Len(SessionConfigurations) > 0 =>
            SessionConfigurations[k].session_identifier =
              SessionStarts[k].session_identifier

\* The k-th session GetSessions is to yield on the store of C8.
C8_Session(k) ==
  SessionOf(SessionStarts[k].session_identifier,
            SessionStarts[k].identifier,
            IF Len(SessionConfigurations) > 0
              THEN SessionConfigurations[k].identifier
              ELSE 0,
            SessionCompletions[k].identifier)

\* C8: on the store of C8 GetSessions raises no error and yields exactly N
\* sessions, the k-th merging the k-th start, the k-th configuration (if
\* any) and the k-th completion record.
C8_AlignedStreamsMerge ==
  ( C8_Store /\ pc # "idle" )
  => ( /\ pc \in { "running", "done" }
       /\ Len(sessions) = session_index - 1
       /\ \A k \in 1 .. Len(sessions) : sessions[k] = C8_Session(k)
       /\ pc = "done" => Len(sessions) = last_session )

\* C8 witness: GetSessions has ended on a store of two sessions with two
\* configuration records, with different session identifiers.
C8_Witness ==
  /\ C8_Store
  /\ pc = "done"
  /\ last_session = 2
  /\ Len(SessionConfigurations) = 2
  /\ SessionStarts[1].session_identifier # SessionStarts[2].session_identifier

\* The records merged into a yielded session all carry its identifier.
Consistent(session) ==
  /\ SessionStarts[session.session_start].session_identifier =
       session.identifier
  /\ session.session_configuration # 0 =>
       SessionConfigurations[session.session_configuration]
         .session_identifier = session.identifier
  /\ session.session_completion # 0 =>
       SessionCompletions[session.session_completion]
         .session_identifier = session.identifier

\* The iteration for session_index pulls a configuration or completion
\* record whose session identifier is not that of the session_start it pulls.
PullsMismatch ==
  /\ ~StartExhausted
  /\ \/ /\ session_configuration_generator.exists
        /\ ~ConfigurationExhausted
        /\ PulledConfiguration.session_identifier #
             PulledStart.session_identifier
     \/ /\ ~CompletionExhausted
        /\ PulledCompletion.session_identifier #
             PulledStart.session_identifier

\* C9: an iteration for session index N that pulls a configuration or
\* completion record with another session identifier than the N-th
\* session_start ends GetSessions with an I/O error naming N, after exactly
\* N-1 sessions and without yielding session N; no yielded session ever
\* combines records of different session identifiers, and nothing is
\* yielded after an error.
C9_IdentifierMismatchIsFatal ==
  /\ [](\A k \in 1 .. Len(sessions) : Consistent(sessions[k]))
  /\ [][ ( Iterates /\ PullsMismatch )
         => ( /\ pc' = "error"
              /\ sessions_error'.error = "IOError"
              /\ sessions_error'.session_index = session_index
              /\ sessions' = sessions
              /\ Len(sessions) = session_index - 1 ) ]_vars
  /\ [][ pc = "error" => ( sessions' = sessions \/ pc' = "idle" ) ]_vars

\* C9 witness: GetSessions yielded session 1 and then raised the identifier
\* mismatch of the completion record of session 2.
C9_Witness ==
  /\ pc = "error"
  /\ sessions_error =
       SessionsError("IOError",
                     "Session identifier mismatch for session completion", 2)
  /\ Len(sessions) = 1
  /\ session_completion_generator.position = 2

\* C10: an iteration for session index N <= last_session that finds the
\* session_start stream exhausted raises the I/O error 'Missing session
\* start: N' after exactly N-1 sessions; nothing is yielded afterwards.
C10_MissingSessionStartIsFatal ==
  /\ [][ ( Iterates /\ StartExhausted )
         => ( /\ pc' = "error"
              /\ sessions_error' =
                   SessionsError("IOError", "Missing session start",
                                 session_index)
              /\ sessions' = sessions
              /\ Len(sessions) = session_index - 1 ) ]_vars
  /\ [][ ( pc = "error"
           /\ sessions_error.message = "Missing session start" )
         => ( sessions' = sessions \/ pc' = "idle" ) ]_vars

\* C10 witness: GetSessions yielded session 1 and then raised 'Missing
\* session start: 2'.
C10_Witness ==
  /\ pc = "error"
  /\ sessions_error = SessionsError("IOError", "Missing session start", 2)
  /\ Len(sessions) = 1
  /\ Len(SessionStarts) = 1

\* C11: when GetSessions has opened a configuration generator (the store
\* held a session_configuration record when it started) and the iteration
\* for session index N <= last_session, having pulled the N-th
\* session_start, finds the configuration stream exhausted, GetSessions
\* raises the I/O error 'Missing session configuration: N' after exactly N-1
\* sessions and does not yield session N.
C11_MissingSessionConfigurationIsFatal ==
  /\ []( pc = "running" =>
           ( session_configuration_generator.exists
               <=> HasAttributeContainers(
                     CONTAINER_TYPE_SESSION_CONFIGURATION) ) )
  /\ [][ ( /\ Iterates
           /\ ~StartExhausted
           /\ session_configuration_generator.exists
           /\ ConfigurationExhausted )
         => ( /\ pc' = "error"
              /\ sessions_error' =
                   SessionsError("IOError", "Missing session configuration",
                                 session_index)
              /\ sessions' = sessions
              /\ Len(sessions) = session_index - 1 ) ]_vars

\* C11 witness: GetSessions yielded session 1 and then raised 'Missing
\* session configuration: 2' on a store with two session_start records.
C11_Witness ==
  /\ pc = "error"
  /\ sessions_error =
       SessionsError("IOError", "Missing session configuration", 2)
  /\ Len(sessions) = 1
  /\ Len(SessionStarts) = 2
  /\ Len(SessionConfigurations) = 1

\* C12: GetSessions yields the sessions one at a time in ascending session
\* index order from 1, never more than last_session of them however many
\* session_start records the store holds, and the k-th yielded session
\* carries the attributes of the k-th session_start record in write order.
C12_SessionsInIndexOrder ==
  /\ []( /\ Len(sessions) <= last_session
         /\ pc = "running" => Len(sessions) = session_index - 1
         /\ \A k \in 1 .. Len(sessions) :
              /\ sessions[k].session_start = SessionStarts[k].identifier
              /\ sessions[k].session_start = k
              /\ sessions[k].identifier =
                   SessionStarts[k].session_identifier )
  /\ [][ \/ pc' = "idle"
         \/ sessions' = sessions
         \/ /\ Len(sessions') = Len(sessions) + 1
            /\ SubSeq(sessions', 1, Len(sessions)) = sessions ]_vars

\* C12 witness: GetSessions ended after two sessions on a store with
\* last_session = 2 that holds three session_start records.
C12_Witness ==
  /\ pc = "done"
  /\ last_session = 2
  /\ Len(sessions) = 2
  /\ Len(SessionStarts) = 3

\* The store after a successful write of a container of the type: the count
\* of the type has grown by one, the new last container is one of that type
\* with the next identifier, and nothing else has changed.
Persisted(container_type) ==
  /\ \E c \in ContainersOfType(container_type) :
       containers' =
         [containers EXCEPT ![container_type] =
            Append(containers[container_type],
                   [c EXCEPT !.identifier =
                      Len(containers[container_type]) + 1])]
  /\ UNCHANGED << storage_type, is_open, read_only, last_session >>

\* C13: on an open, writable task store WriteTaskStart and
\* WriteTaskCompletion succeed and persist exactly the container given (the
\* count of its type grows by one, no other type changes); WriteSessionStart
\* on that store fails and leaves the store as it was.
C13_TaskStoreScenario ==
  [][ ( ~RaiseIfNotWritable /\ storage_type = STORAGE_TYPE_TASK )
      => ( /\ Called("WriteTaskStart") =>
                /\ result'.error = "none"
                /\ Persisted(CONTAINER_TYPE_TASK_START)
           /\ Called("WriteTaskCompletion") =>
                /\ result'.error = "none"
                /\ Persisted(CONTAINER_TYPE_TASK_COMPLETION)
           /\ Called("WriteSessionStart") =>
                /\ result'.error = "IOError"
                /\ store_vars' = store_vars ) ]_vars

\* C13 witness: after one task_start and one task_completion were written
\* to an open, writable task store, WriteSessionStart was called and failed.
C13_Witness ==
  /\ storage_type = STORAGE_TYPE_TASK
  /\ is_open /\ ~read_only
  /\ Len(containers[CONTAINER_TYPE_TASK_START]) = 1
  /\ Len(containers[CONTAINER_TYPE_TASK_COMPLETION]) = 1
  /\ TotalContainers = 2
  /\ result.op = "WriteSessionStart"
  /\ result.error = "IOError"
  /\ result.message = "Session start not supported by storage type."

\* C19: the store is append-only: in every step the containers of every
\* type before the step are a prefix of those after it, so no count ever
\* decreases and every container once enumerated is enumerated again with
\* the same attribute values.
C19_AppendOnly ==
  [][ \A t \in CONTAINER_TYPES :
        /\ Len(containers'[t]) >= Len(containers[t])
        /\ SubSeq(containers'[t], 1, Len(containers[t])) = containers[t]
    ]_vars

\* C19 witness: a second container of a type was written after the first,
\* which is still the first container of its type.
C19_Witness ==
  /\ Len(containers[CONTAINER_TYPE_SESSION_CONFIGURATION]) = 2
  /\ containers[CONTAINER_TYPE_SESSION_CONFIGURATION][1].session_identifier = 1
  /\ containers[CONTAINER_TYPE_SESSION_CONFIGURATION][2].session_identifier = 2
  /\ result.written

\* ------------------------------------------- claims on the serializer wrappers

\* _DeserializeAttributeContainer has returned or raised for the data in
\* serialized_data.
Deserialized ==
  /\ serializer_pc = "idle"
  /\ serializer_result.op = "Deserialize"

\* C14: _DeserializeAttributeContainer never swallows a decode failure: for
\* non-empty bytes that are not valid UTF-8 it raises IOError 'Unable to
\* decode serialized data', for valid UTF-8 text that ReadSerialized rejects
\* with TypeError or ValueError it raises IOError 'Unable to read serialized
\* data'; in neither case does it return a container or None.
C14_DecodeFailuresRaise ==
  ( /\ Deserialized
    /\ serialized_data.type = "bytes"
    /\ Len(serialized_data.value) > 0 )
  => /\ ~Utf8Valid(serialized_data.value) =>
          serializer_result =
            Raised("Deserialize", "IOError",
                   "Unable to decode serialized data")
     /\ ( /\ Utf8Valid(serialized_data.value)
          /\ ReadSerialized(Str(Utf8Decode(serialized_data.value))).error
               \in { "TypeError", "ValueError" } ) =>
          serializer_result =
            Raised("Deserialize", "IOError", "Unable to read serialized data")

\* C14 witness: data that ends in the lead byte of a two-byte character was
\* deserialized and the call raised the decode error.
C14_Witness ==
  /\ Deserialized
  /\ serialized_data =
       Bytes(<< LEFT_BRACE, LATIN_SMALL_A, E_ACUTE_LEAD_BYTE >>)
  /\ serializer_result.error = "IOError"
  /\ serializer_result.message = "Unable to decode serialized data"

\* The data is the serialized form of a container.
WellFormed(data) ==
  /\ data.type = "bytes"
  /\ Len(data.value) > 0
  /\ Utf8Valid(data.value)
  /\ ReadSerialized(Str(Utf8Decode(data.value))).error = "none"

\* C15: data read from the store that is not a well-formed encoding of a
\* container, a zero-length byte string included, is reported by
\* _DeserializeAttributeContainer as an error and never as None.
C15_MalformedDataIsAnError ==
  ( /\ Deserialized
    /\ ~round_trip
    /\ ~WellFormed(serialized_data) )
  => serializer_result.error # "none"

\* _SerializeAttributeContainer has returned or raised for the container in
\* attribute_container.
Serialized ==
  /\ serializer_pc = "idle"
  /\ serializer_result.op = "Serialize"

\* C16: _SerializeAttributeContainer either returns a non-empty payload or
\* raises an I/O error, and it raises whenever WriteSerialized produced an
\* empty result.
C16_SerializeNeverReturnsEmpty ==
  Serialized
  => /\ \/ /\ serializer_result.error = "none"
           /\ Len(serializer_result.value.value) > 0
        \/ serializer_result.error = "IOError"
     /\ Len(WriteSerialized(attribute_container).value) = 0 =>
          serializer_result =
            Raised("Serialize", "IOError",
                   "Unable to serialize attribute container")

\* C16 witness: a container with an attribute the serializer cannot
\* represent was given and the call raised.
C16_Witness ==
  /\ Serialized
  /\ attribute_container = AttributeContainer(CONTAINER_TYPE_EVENT, Unsupported)
  /\ serializer_result.error = "IOError"

\* C17: for every container for which _SerializeAttributeContainer
\* succeeded, _DeserializeAttributeContainer of the container's type and the
\* data returned succeeds and returns a container equal to it on every
\* attribute.
C17_RoundTrip ==
  ( Deserialized /\ round_trip )
  => /\ serializer_result.error = "none"
     /\ serializer_result.value = attribute_container

\* -------------------------------------------- claims on the storage reader

\* C18: a StorageReader used in a with statement has Close called exactly
\* once when the with statement is left, whether its body completed or
\* raised, and never before; the exception of the body is not suppressed:
\* it is still in flight after Close has run and reaches the caller.
C18_ScopedReaderClosedOnce ==
  /\ []( \A reader \in Readers :
           /\ reader_state[reader] = "entered" <=>
                \E i \in 1 .. Len(with_stack) : with_stack[i] = reader
           /\ reader_state[reader] = "closed" => close_calls[reader] = 1
           /\ reader_state[reader] # "closed" => close_calls[reader] = 0 )
  /\ [][ \A reader \in Readers :
           ( /\ reader_state[reader] = "entered"
             /\ reader_state'[reader] # "entered" )
           => /\ reader_state'[reader] = "closed"
              /\ close_calls'[reader] = close_calls[reader] + 1
              /\ exception_type' = exception_type ]_vars

\* C18 witness: the body of a with statement nested in another raised, both
\* readers were closed once, and the exception has reached the caller.
C18_Witness ==
  /\ with_stack = << >>
  /\ exception_type = "IOError"
  /\ close_calls[1] = 1
  /\ close_calls[2] = 1
  /\ reader_state[3] = "new"

\* ----------------------------------------------- claims on the sorted events

\* C20: GetSortedEvents yields the events written to the store, flushed or
\* not, that the time range selects (all of them without a time range), each
\* once, in non-decreasing timestamp order, whatever the order in which
\* events and containers of other types were written.
C20_SortedEvents ==
  sorted_events # None
  => LET yielded == sorted_events.value
         selected ==
           { i \in 1 .. Len(containers[CONTAINER_TYPE_EVENT]) :
               \/ time_range = None
               \/ /\ time_range # None
                  /\ time_range.value[1] <=
                       containers[CONTAINER_TYPE_EVENT][i].timestamp
                  /\ containers[CONTAINER_TYPE_EVENT][i].timestamp <
                       time_range.value[2] }
     IN /\ \A i \in 1 .. Len(yielded) : \A j \in i .. Len(yielded) :
             yielded[i].timestamp <= yielded[j].timestamp
        /\ Len(yielded) = Cardinality(selected)
        /\ { yielded[i] : i \in 1 .. Len(yielded) } =
             { containers[CONTAINER_TYPE_EVENT][i] : i \in selected }

\* C20 witness: three events were written latest first, with event data in
\* between and only the first event flushed; GetSortedEvents with the time
\* range from 1 up to 3 yielded the events of timestamps 1 and 2, in that
\* order.
C20_Witness ==
  /\ sorted_events # None
  /\ time_range = TimeRange(1, 3)
  /\ Len(containers[CONTAINER_TYPE_EVENT]) = 3
  /\ containers[CONTAINER_TYPE_EVENT][1].timestamp = 3
  /\ containers[CONTAINER_TYPE_EVENT][2].timestamp = 2
  /\ containers[CONTAINER_TYPE_EVENT][3].timestamp = 1
  /\ Len(containers[CONTAINER_TYPE_EVENT_DATA]) >= 1
  /\ flushed = 1
  /\ Len(sorted_events.value) = 2
  /\ sorted_events.value[1].timestamp = 1
  /\ sorted_events.value[2].timestamp = 2

\* ------------------------------------------------ claims on the enumerations

\* The position of the generator after a step of GetSessions in which
\* next(generator) was called: one further, unless it raised StopIteration.
PositionAfterNext(generator, type) ==
  IF StopIteration(generator, type)
    THEN generator.position
    ELSE generator.position + 1

\* C21: two calls of GetAttributeContainers for the same container type give
\* two independent generators over the same containers in write order: what
\* each has returned is the containers of the type up to its own position,
\* and a step that advances one leaves the other where it is.  The three
\* generators of GetSessions advance independently, each by one container
\* for a session index unless it is exhausted.
C21_IndependentGenerators ==
  /\ []( \A enumerator \in Enumerators :
           LET enumeration == enumerations[enumerator]
           IN enumeration.generator.exists =>
                enumeration.yielded =
                  SubSeq(containers[enumeration.container_type], 1,
                         enumeration.generator.position) )
  /\ [][ \A first, second \in Enumerators :
           ( /\ first # second
             /\ enumerations[first].generator.exists
             /\ enumerations'[first].generator.position #
                  enumerations[first].generator.position )
           => enumerations'[second] = enumerations[second] ]_vars
  /\ [][ ( Iterates /\ ~StartExhausted )
         => /\ session_start_generator'.position =
                 session_start_generator.position + 1
            /\ session_completion_generator'.position =
                 PositionAfterNext(session_completion_generator,
                                   CONTAINER_TYPE_SESSION_COMPLETION)
            /\ session_configuration_generator'.position =
                 IF session_configuration_generator.exists
                   THEN PositionAfterNext(
                          session_configuration_generator,
                          CONTAINER_TYPE_SESSION_CONFIGURATION)
                   ELSE session_configuration_generator.position
            /\ enumerations' = enumerations ]_vars

\* C21 witness: two callers enumerate the session_start containers of a
\* store that holds two; one has been returned both, the other only the
\* first.
C21_Witness ==
  /\ Len(SessionStarts) = 2
  /\ enumerations[1].container_type = CONTAINER_TYPE_SESSION_START
  /\ enumerations[2].container_type = CONTAINER_TYPE_SESSION_START
  /\ enumerations[1].yielded = SessionStarts
  /\ enumerations[2].yielded = << SessionStarts[1] >>

\* --------------------------------------------- claims on the read operations

\* C22: GetSessions and ReadSystemConfiguration called on a store that is
\* not readable fail with the not-readable error; GetSessions yields no
\* session and ReadSystemConfiguration passes no artifact to the knowledge
\* base.
C22_ReadsFailWhenNotReadable ==
  [][ RaiseIfNotReadable
      => /\ Called("ReadSystemConfiguration") =>
              /\ result'.error = NotReadableError.error
              /\ result'.message = NotReadableError.message
              /\ knowledge_base' = << >>
         /\ ( pc = "idle" /\ pc' # "idle" ) =>
              /\ pc' = "error"
              /\ sessions_error'.message = NotReadableError.message
              /\ sessions' = << >> ]_vars

\* C30: ReadSystemConfiguration on a readable store passes every
\* system_configuration container of the store to the knowledge base, each
\* once and in write order, passes nothing when the store holds none, and
\* does not change the store.
C30_ReadSystemConfigurationPassesAll ==
  [][ ( Called("ReadSystemConfiguration") /\ ~RaiseIfNotReadable )
      => /\ result'.error = "none"
         /\ knowledge_base' = containers[CONTAINER_TYPE_SYSTEM_CONFIGURATION]
         /\ \A i \in 1 .. Len(knowledge_base') :
              knowledge_base'[i].identifier = i
         /\ store_vars' = store_vars ]_vars

\* C30 witness: ReadSystemConfiguration was called on an open store that
\* holds two system_configuration containers and passed both on.
C30_Witness ==
  /\ is_open
  /\ result.op = "ReadSystemConfiguration"
  /\ result.error = "none"
  /\ Len(containers[CONTAINER_TYPE_SYSTEM_CONFIGURATION]) = 2
  /\ Len(knowledge_base) = 2
  /\ knowledge_base[1].identifier = 1
  /\ knowledge_base[2].identifier = 2

\* ------------------------------------------ further claims on the write calls

\* The messages of the errors the wrappers raise for the storage type.
StorageTypeErrorMessages ==
  { "Session completion not supported by storage type.",
    "Session start not supported by storage type.",
    "Task start not supported by storage type.",
    "Task completion not supported by storage type." }

C28_SessionConfigurationWrittenIffNoSystemConfiguration ==
  [][ ( Called("WriteSessionConfiguration") /\ ~RaiseIfNotWritable )
      => /\ result'.error = "none"
         /\ IF Len(containers[CONTAINER_TYPE_SYSTEM_CONFIGURATION]) = 0
              THEN /\ result'.written
                   /\ Persisted(CONTAINER_TYPE_SESSION_CONFIGURATION)
              ELSE /\ ~result'.written
                   /\ store_vars' = store_vars ]_vars

\* C28 witness: WriteSessionConfiguration was called on a writable store
\* that holds a system_configuration container and returned without
\* writing.
C28_Witness ==
  /\ is_open /\ ~read_only
  /\ Len(containers[CONTAINER_TYPE_SYSTEM_CONFIGURATION]) = 1
  /\ Len(containers[CONTAINER_TYPE_SESSION_CONFIGURATION]) = 0
  /\ result.op = "WriteSessionConfiguration"
  /\ result.error = "none"
  /\ ~result.written

\* -------------------------------------------- further claims on GetSessions

\* C25: no session_completion record is merged into more than one session:
\* the completion of the k-th session yielded is the k-th session_completion
\* record, pulled for it, and none when the store holds fewer than k.
C25_CompletionMergedOnce ==
  \A k \in 1 .. Len(sessions) :
    sessions[k].session_completion =
      IF k <= Len(SessionCompletions)
        THEN SessionCompletions[k].identifier
        ELSE 0

\* C29: on a store that holds no session_configuration container GetSessions
\* opens no configuration generator, raises neither the missing
\* configuration nor the configuration mismatch error, and every session it
\* yields is built from its session_start (and session_completion) only.
C29_NoConfigurationOnOlderStore ==
  ( pc # "idle" /\ Len(SessionConfigurations) = 0 )
  => /\ ~session_configuration_generator.exists
     /\ sessions_error.message \notin
          { "Missing session configuration",
            "Session identifier mismatch for session configuration" }
     /\ \A k \in 1 .. Len(sessions) :
          /\ sessions[k].session_configuration = 0
          /\ sessions[k].session_start = SessionStarts[k].identifier
          /\ sessions[k].identifier = SessionStarts[k].session_identifier
          /\ sessions[k].session_completion # 0 =>
               \E i \in 1 .. Len(SessionCompletions) :
                 sessions[k].session_completion =
                   SessionCompletions[i].identifier

\* C29 witness: GetSessions ended after two sessions on a store that holds
\* two session_start, two session_completion and no session_configuration
\* containers.
C29_Witness ==
  /\ pc = "done"
  /\ Len(SessionConfigurations) = 0
  /\ Len(SessionStarts) = 2
  /\ Len(sessions) = 2
  /\ sessions[2].session_completion = 2

\* ----------------------------------------------- claims on the profiler

\* C26: with a serializers profiler set, a serializer wrapper that called
\* StartTiming for a container type calls StopTiming for that type before
\* it returns or raises, whatever the outcome: while a wrapper runs one
\* timing of its container type is started, and between calls none is.
C26_TimingsPaired ==
  /\ []( \A t \in SerializerContainerTypes :
           timings[t] =
             IF /\ serializers_profiler
                /\ serializer_pc # "idle"
                /\ t = timed_container_type
               THEN 1
               ELSE 0 )
  /\ [][ ( serializer_pc # "idle" /\ serializer_pc' = "idle" )
         => /\ timings[timed_container_type] =
                 IF serializers_profiler THEN 1 ELSE 0
            /\ timings' = [t \in SerializerContainerTypes |-> 0] ]_vars

\* C26 witness: with a profiler set, _DeserializeAttributeContainer raised
\* the decode error and no timing is left started.
C26_Witness ==
  /\ serializers_profiler
  /\ serializer_pc = "idle"
  /\ serializer_result.op = "Deserialize"
  /\ serializer_result.message = "Unable to decode serialized data"
  /\ \A t \in SerializerContainerTypes : timings[t] = 0

\* ------------------------------------- a session store built by its writer

\* The containers a session store takes besides the session records.
BuildContainerTypes ==
  { CONTAINER_TYPE_SYSTEM_CONFIGURATION, CONTAINER_TYPE_EVENT }

\* No session is being written: every session started was completed.
BetweenSessions ==
  Len(containers[CONTAINER_TYPE_SESSION_START]) =
    Len(containers[CONTAINER_TYPE_SESSION_COMPLETION])

\* The session being written was started and the call given is the last one
\* made in it.
InSessionAfter(op) ==
  /\ Len(containers[CONTAINER_TYPE_SESSION_START]) =
       Len(containers[CONTAINER_TYPE_SESSION_COMPLETION]) + 1
  /\ result.op = op

\* The session identifier of the session being written.
CurrentSessionIdentifier ==
  containers[CONTAINER_TYPE_SESSION_START][
    Len(containers[CONTAINER_TYPE_SESSION_START])].session_identifier

\* A writable session store; _last_session is the number of sessions that
\* will have been written when the sessions are read.
InitBuild == InitSessions

\* The writer writes each session as WriteSessionStart,
\* WriteSessionConfiguration, WriteSessionCompletion with one session
\* identifier, adds containers between sessions, and the sessions are read
\* once _last_session sessions are written.
NextBuild ==
  \/ \E c \in ContainersOfType(CONTAINER_TYPE_SESSION_START) :
       /\ Idle /\ BetweenSessions
       /\ Len(containers[CONTAINER_TYPE_SESSION_START]) < last_session
       /\ WriteSessionStart(c)
  \/ \E c \in ContainersOfType(CONTAINER_TYPE_SESSION_CONFIGURATION) :
       /\ Idle /\ InSessionAfter("WriteSessionStart")
       /\ c.session_identifier = CurrentSessionIdentifier
       /\ WriteSessionConfiguration(c)
  \/ \E c \in ContainersOfType(CONTAINER_TYPE_SESSION_COMPLETION) :
       /\ Idle /\ InSessionAfter("WriteSessionConfiguration")
       /\ c.session_identifier = CurrentSessionIdentifier
       /\ WriteSessionCompletion(c)
  \/ \E t \in BuildContainerTypes : \E c \in ContainersOfType(t) :
       /\ Idle /\ BetweenSessions
       /\ Len(containers[t]) < MaxContainers
       /\ AddAttributeContainer(c)
  \/ /\ BetweenSessions
     /\ Len(containers[CONTAINER_TYPE_SESSION_START]) = last_session
     /\ GetSessionsBegin
  \/ GetSessionsNext
  \/ GetSessionsClose

SpecBuild == InitBuild /\ [][NextBuild]_vars

\* C27: on a session store built by the public write operations, each
\* session written as start, configuration, completion with one session
\* identifier, system_configuration and other containers added in between,
\* and _last_session the number of sessions written, GetSessions raises no
\* error and, when it ends, has yielded every session.
C27_BuiltStoreYieldsEverySession ==
  /\ pc # "error"
  /\ sessions_error.error = "none"
  /\ pc = "done" => Len(sessions) = last_session

\* ------------------------------------ claims on the storage type messages

\* The message that names the record kind of each storage-type-checked
\* wrapper.
RecordKindMessage ==
  [ WriteSessionStart |-> "Session start not supported by storage type.",
    WriteSessionCompletion |->
      "Session completion not supported by storage type.",
    WriteTaskStart |-> "Task start not supported by storage type.",
    WriteTaskCompletion |-> "Task completion not supported by storage type." ]

\* C35: the I/O error a write wrapper raises on a writable store of the
\* wrong storage type names the record kind of the wrapper that was called.
C35_StorageTypeErrorNamesRecordKind ==
  [][ \A op \in DOMAIN RequiredStorageType :
        ( /\ Called(op)
          /\ ~RaiseIfNotWritable
          /\ storage_type # RequiredStorageType[op] )
        => result'.message = RecordKindMessage[op] ]_vars

\* ------------------------------------------- GetSessions called again

\* A session store is written, then its sessions are enumerated any number
\* of times, fully or partly; the caller keeps the outcome of one
\* enumeration and nothing is written after that.
InitReread == InitSessions

NextReread ==
  \/ \E c \in ContainersOfType(CONTAINER_TYPE_SESSION_START) :
       /\ Idle /\ ~kept_sessions.kept
       /\ Len(containers[CONTAINER_TYPE_SESSION_START]) < MaxContainers
       /\ WriteSessionStart(c)
  \/ \E c \in ContainersOfType(CONTAINER_TYPE_SESSION_CONFIGURATION) :
       /\ Idle /\ ~kept_sessions.kept
       /\ Len(containers[CONTAINER_TYPE_SESSION_CONFIGURATION])
            < MaxContainers
       /\ WriteSessionConfiguration(c)
  \/ \E c \in ContainersOfType(CONTAINER_TYPE_SESSION_COMPLETION) :
       /\ Idle /\ ~kept_sessions.kept
       /\ Len(containers[CONTAINER_TYPE_SESSION_COMPLETION]) < MaxContainers
       /\ WriteSessionCompletion(c)
  \/ GetSessionsBegin
  \/ GetSessionsNext
  \/ GetSessionsClose
  \/ KeepSessions

SpecReread == InitReread /\ [][NextReread]_vars

\* The shorter of two lengths.
Shorter(m, n) == IF m <= n THEN m ELSE n

\* An enumeration that has ended in the state given after the sessions
\* `ended` agrees with one that has so far given the sessions `other` and is
\* in the state other_state: the other one has not got further, and has not
\* ended in another way or elsewhere.
EndedAgrees(ended, ended_state, ended_error, other, other_state,
            other_error) ==
  ended_state \in { "done", "error" }
  => /\ Len(other) <= Len(ended)
     /\ other_state \in { "done", "error" }
          => /\ other_state = ended_state
             /\ other_error = ended_error
             /\ Len(other) = Len(ended)

\* C31: GetSessions is read-only: every step of an enumeration, begun,
\* advanced or dropped, with or without an error, leaves _last_session,
\* storage_type and the containers of every type unchanged; and an
\* enumeration of the same store gives the same sessions, and ends with the
\* same error at the same index, as the enumeration the caller has kept.
C31_GetSessionsReadOnly ==
  /\ [][ ( pc # "idle" \/ pc' # "idle" )
         => /\ last_session' = last_session
            /\ storage_type' = storage_type
            /\ containers' = containers ]_vars
  /\ []( ( kept_sessions.kept /\ pc # "idle" )
         => /\ \A k \in 1 .. Shorter(Len(sessions),
                                     Len(kept_sessions.sessions)) :
                 sessions[k] = kept_sessions.sessions[k]
            /\ EndedAgrees(kept_sessions.sessions, kept_sessions.state,
                           kept_sessions.error, sessions, pc,
                           sessions_error)
            /\ EndedAgrees(sessions, pc, sessions_error,
                           kept_sessions.sessions, kept_sessions.state,
                           kept_sessions.error) )

\* C31 witness: the caller has kept two sessions of an enumeration that
\* ended in an error at the next index, and a later enumeration of the store
\* has given its first session.
C31_Witness ==
  /\ kept_sessions.kept
  /\ kept_sessions.state = "error"
  /\ Len(kept_sessions.sessions) = 2
  /\ kept_sessions.error.session_index = Len(kept_sessions.sessions) + 1
  /\ pc = "running"
  /\ Len(sessions) = 1

\* ------------------------------------------------ the Santa plugin called

\* The text parser calls _ParseRecord for the lines of a log file.
InitSanta == Init

NextSanta ==
  \E key \in Keys : \E structure \in Structures(key) :
    /\ ParseRecord(key, structure)
    /\ Len(produced_event_data') <= MaxRecords

SpecSanta == InitSanta /\ [][NextSanta]_vars

\* _ParseRecord was called: it left its key.
ParseRecordCalled == santa_key' \in Keys

\* C32: _ParseRecord called with a key that is not one of the six supported
\* ones raises ParseError and produces no event data; called with
\* quota_exceeded_line it returns without producing event data, whatever
\* the date and time of the structure.
C32_UnknownKeyRaisesQuotaLineSkipped ==
  [][ ParseRecordCalled
      => /\ santa_key' \notin SUPPORTED_KEYS
              => /\ santa_result'.error = "ParseError"
                 /\ produced_event_data' = produced_event_data
         /\ santa_key' = "quota_exceeded_line"
              => /\ santa_result'.error = "none"
                 /\ produced_event_data' = produced_event_data ]_vars

\* C32 witness: _ParseRecord was called with quota_exceeded_line and a
\* date and time that cannot be parsed, and returned; nothing was produced.
C32_Witness ==
  /\ santa_key = "quota_exceeded_line"
  /\ santa_structure.date_time = DateAndTime(MONTHS_PER_YEAR + 1)
  /\ santa_result.op = "_ParseRecord"
  /\ santa_result.error = "none"
  /\ produced_event_data = << >>

\* The keys _ParseRecord produces event data for, with the data type of
\* the key.
EventDataType ==
  [ execution_line |-> "santa:execution",
    process_exit_line |-> "santa:process_exit",
    file_system_event_line |-> "santa:file_system_event",
    mount_line |-> "santa:diskmount",
    umount_line |-> "santa:diskmount" ]

\* The time attribute of the event data of a key.
TimeAttribute(event_data, key) ==
  IF key = "execution_line" THEN event_data.last_run_time
  ELSE IF key = "process_exit_line" THEN event_data.exit_time
  ELSE event_data.last_written_time

\* A date and time that can be parsed.
ValidDateAndTime(tokens) ==
  /\ tokens # None
  /\ tokens.value[2] >= 1
  /\ tokens.value[2] <= MONTHS_PER_YEAR

\* The call produced one event data, of the data type of its key and with
\* the date and time of the line.
ProducedOne ==
  /\ santa_result'.error = "none"
  /\ Len(produced_event_data') = Len(produced_event_data) + 1
  /\ \A k \in 1 .. Len(produced_event_data) :
       produced_event_data'[k] = produced_event_data[k]
  /\ LET event_data == produced_event_data'[Len(produced_event_data')]
     IN /\ event_data.data_type = EventDataType[santa_key']
        /\ TimeAttribute(event_data, santa_key').type =
             "TimeElementsInMilliseconds"
        /\ TimeAttribute(event_data, santa_key').value =
             santa_structure'.date_time.value

\* The call raised ParseError and produced nothing.
RaisedParseError ==
  /\ santa_result'.error = "ParseError"
  /\ produced_event_data' = produced_event_data

\* C33 as stated: for each of the five keys, with a date and time that can
\* be parsed _ParseRecord produces one event data of the data type of the
\* key whose time attribute is the line timestamp, and with one that cannot
\* be parsed it raises ParseError and produces nothing.
C33_OneEventDataPerRecord ==
  [][ ( ParseRecordCalled /\ santa_key' \in DOMAIN EventDataType )
      => IF ValidDateAndTime(santa_structure'.date_time)
           THEN ProducedOne
           ELSE RaisedParseError ]_vars

\* C33 amended: as above where, for a mount line, the appearance is absent
\* or can be parsed as well; a mount line whose appearance cannot be parsed
\* raises ParseError and produces nothing.
C33_OneEventDataPerRecordWithValidAppearance ==
  [][ ( ParseRecordCalled /\ santa_key' \in DOMAIN EventDataType )
      => IF /\ ValidDateAndTime(santa_structure'.date_time)
            /\ \/ santa_structure'.appearance = None
               \/ ValidDateAndTime(santa_structure'.appearance)
           THEN ProducedOne
           ELSE RaisedParseError ]_vars

\* C33 witness: a mount line with a date and time and another appearance,
\* both parsed, has produced one event data with the two.
C33_Witness ==
  /\ santa_key = "mount_line"
  /\ santa_result.error = "none"
  /\ Len(produced_event_data) = 1
  /\ produced_event_data[1].data_type = "santa:diskmount"
  /\ produced_event_data[1].last_written_time =
       TimeElementsInMilliseconds(santa_structure.date_time.value)
  /\ produced_event_data[1].appearance_time # None
  /\ produced_event_data[1].appearance_time #
       produced_event_data[1].last_written_time

\* ------------------------------------------------ the formatter called

\* An event values dictionary of a shell item file entry event.
InitFormatter ==
  /\ storage_type = STORAGE_TYPE_SESSION
  /\ is_open = FALSE
  /\ read_only = FALSE
  /\ last_session = 0
  /\ containers = [t \in CONTAINER_TYPES |-> << >>]
  /\ result = NoResult
  /\ GeneratorInit
  /\ stored_data = Bytes(<< >>)
  /\ SerializerInit
  /\ ReaderInit
  /\ EventsInit
  /\ ReadInit
  /\ KeptInit
  /\ ParserInit
  /\ event_values \in EventValuesDictionaries
  /\ format_calls = 0

NextFormatter == FormatEventValuesCall

SpecFormatter == InitFormatter /\ [][NextFormatter]_vars

\* C34: FormatEventValues sets file_entry_name to the value of long_name
\* when that is present and not empty, otherwise to the value of name, None
\* when name is absent; it changes no other key; and a second application
\* changes nothing.
C34_FileEntryNameFromLongNameOrName ==
  [][ format_calls' = format_calls + 1
      => /\ DOMAIN event_values' = DOMAIN event_values \cup { "file_entry_name" }
         /\ event_values'["file_entry_name"] =
              IF /\ "long_name" \in DOMAIN event_values
                 /\ event_values["long_name"] # None
                 /\ event_values["long_name"] # Str(<< >>)
                THEN event_values["long_name"]
              ELSE IF "name" \in DOMAIN event_values
                THEN event_values["name"]
              ELSE None
         /\ \A name \in DOMAIN event_values \ { "file_entry_name" } :
              event_values'[name] = event_values[name]
         /\ format_calls >= 1 => event_values' = event_values ]_vars

\* C34 witness: FormatEventValues was applied twice to event values with an
\* empty long_name and a name, and file_entry_name is the name.
C34_Witness ==
  /\ format_calls = 2
  /\ DOMAIN event_values = { "long_name", "name", "file_entry_name" }
  /\ event_values["long_name"] = Str(<< >>)
  /\ event_values["name"] = Str(<< LATIN_SMALL_A >>)
  /\ event_values["file_entry_name"] = Str(<< LATIN_SMALL_A >>)

====
